---------------------------- MODULE Spec2Model ----------------------------
(***************************************************************************)
(* Model of the HexTransfer receiver of FlasherX_can                       *)
(* (src/src/HexTransfer.cpp): the state of namespace HexTransfer, the two  *)
(* entry points handle_can_msg() and update(), and the passage of time as  *)
(* seen through millis().                                                  *)
(*                                                                         *)
(* Numbers.  TLC integers are 32-bit signed, so a uint32_t is the pair     *)
(* <<hi, lo>> of its 16-bit halves; every other quantity is an integer.    *)
(* Bytes are 0..255, characters are their ASCII codes.                     *)
(***************************************************************************)
EXTENDS Integers, Sequences, FiniteSets, TLC

\* ------------------------------------------------------------------------
\* Program constants (HexTransfer.h)
\* ------------------------------------------------------------------------
MAX_HEX_LINE_SIZE == 45
MAX_HEX_CHUNK_SIZE == 5
MAX_CHUNKS_PER_HEX_LINE == 9
PAD == 255
HEX_LINE_TIMEOUT_LEN == 5000
INACTIVITY_TIMEOUT_LEN == 15000

\* FLASH_BASE_ADDR comes from FlashTxx.h; 0 on the Teensy 3.x the code names.
FLASH_BASE_ADDR == 0

\* enum class ResponseCode
NONE == 0
SEND_LINE == 1
TRANSFER_COMPLETE == 2
ERROR == 3

\* ------------------------------------------------------------------------
\* 32-bit unsigned arithmetic on <<hi, lo>>
\* ------------------------------------------------------------------------
W16 == 256 * 256

U32(hi, lo) == <<hi, lo>>
U32OfInt(n) == <<n \div W16, n % W16>>
U32Zero == <<0, 0>>
U32Max == <<65535, 65535>>

\* a + b as the machine computes it (mod 2^32), and whether the true sum
\* exceeds 2^32 - 1.
U32Add(a, b) ==
  LET lo == a[2] + b[2]
      hi == a[1] + b[1] + (lo \div W16)
  IN  <<hi % W16, lo % W16>>
U32Carry(a, b) == (a[1] + b[1] + ((a[2] + b[2]) \div W16)) >= W16

\* a - b (mod 2^32)
U32Sub(a, b) ==
  LET lo == a[2] - b[2]
      borrow == IF lo < 0 THEN 1 ELSE 0
      hi == a[1] - b[1] - borrow
  IN  <<(hi + W16) % W16, (lo + W16) % W16>>

U32Lt(a, b) == a[1] < b[1] \/ (a[1] = b[1] /\ a[2] < b[2])
U32Gt(a, b) == U32Lt(b, a)
U32Le(a, b) == ~U32Lt(b, a)

\* x << k on 32 bits, for x < 2^16 and k in {4, 16}
U32Shl(x, k) ==
  IF k = 16 THEN <<x % W16, 0>>
  ELSE <<(x \div 4096) % W16, (x * 16) % W16>>

\* ------------------------------------------------------------------------
\* Bitwise exclusive or, and CRC-32 as FastCRC32 computes it
\* (reflected polynomial 0xEDB88320, seed 0xFFFFFFFF, final complement).
\* ------------------------------------------------------------------------
RECURSIVE Xor(_, _)
Xor(a, b) ==
  IF a = 0 THEN b
  ELSE IF b = 0 THEN a
  ELSE ((a + b) % 2) + 2 * Xor(a \div 2, b \div 2)

U32Xor(a, b) == <<Xor(a[1], b[1]), Xor(a[2], b[2])>>
U32Not(a) == <<65535 - a[1], 65535 - a[2]>>
U32Shr1(a) == <<a[1] \div 2, (a[2] \div 2) + 32768 * (a[1] % 2)>>
U32Shr8(a) == <<a[1] \div 256, (a[2] \div 256) + 256 * (a[1] % 256)>>

CRC_POLY == <<60856, 33568>>   \* 0xEDB88320

RECURSIVE CrcBits(_, _)
CrcBits(c, n) ==
  IF n = 0 THEN c
  ELSE CrcBits(IF c[2] % 2 = 1 THEN U32Xor(U32Shr1(c), CRC_POLY) ELSE U32Shr1(c),
               n - 1)

CrcTable == [i \in 0..255 |-> CrcBits(<<0, i>>, 8)]

\* one byte folded into the running (uncomplemented) register
CrcByte(c, b) == U32Xor(CrcTable[Xor(c[2] % 256, b)], U32Shr8(c))

\* bytes[lo..hi] folded into c in order of index.  The range is split in
\* halves, and each intermediate register is bound as a value (v, left)
\* before it is used, so that it is computed once however the formula is
\* evaluated.
RECURSIVE CrcFold(_, _, _, _)
CrcFold(c, bytes, lo, hi) ==
  IF lo > hi THEN c
  ELSE IF lo = hi
  THEN CHOOSE r \in {CrcByte(v, bytes[lo]) : v \in {c}} : TRUE
  ELSE LET mid == (lo + hi) \div 2
       IN  CHOOSE r \in {CrcFold(left, bytes, mid + 1, hi) :
                           left \in {CrcFold(c, bytes, lo, mid)}} : TRUE

\* FastCRC32 keeps one running register ("seed") per object.
\*   crc32(data, len)     : seed = 0xFFFFFFFF, then as crc32_upd
\*   crc32_upd(data, len) : fold data into seed; return ~seed
CRC_SEED_INIT == U32Max
crc32_upd_seed(seed, bytes) ==
  CHOOSE r \in {CrcFold(sd, bs, 1, Len(bs)) : sd \in {seed}, bs \in {bytes}} : TRUE
crc32_seed(bytes) == crc32_upd_seed(CRC_SEED_INIT, bytes)
crc_value(seed) == U32Not(seed)

\* ------------------------------------------------------------------------
\* Frame codec
\* ------------------------------------------------------------------------
\* A frame is the sequence buf[0..7] of the CAN payload, here <<b0, ..., b7>>
\* (index i of the code is index i + 1 of the sequence).

\* The 64-bit word of the code is packed = SUM buf[i] << (8 * i); its fields
\* are read off the bytes that hold them.
unpack_msg_type(buf) == buf[1] % 2                         \* (packed >> 0) & 0x1
unpack_line_field(buf) == (buf[1] \div 2) + 128 * buf[2]   \* (packed >> 1) & 0x7FFF

\* unpack_transfer_init_msg.  calc is the value CRC32.crc32(data, 48) returns:
\* it is computed over 48 bytes starting at the 12-byte local struct m, so it
\* reads past the object and is whatever the stack holds.
unpack_transfer_init_msg(buf, calc) ==
  [ msg_type |-> unpack_msg_type(buf),
    line_count |-> unpack_line_field(buf),
    file_checksum |-> <<buf[5] + 256 * buf[6], buf[3] + 256 * buf[4]>>,
    init_msg_checksum |-> buf[7] + 256 * buf[8],
    calculated_msg_checksum |-> calc[2] ]                   \* uint16_t truncation

unpack_transfer_segment_msg(buf) ==
  [ msg_type |-> unpack_msg_type(buf),
    line_num |-> unpack_line_field(buf),
    segment_num |-> buf[3] % 16,                            \* (packed >> 16) & 0x0F
    total_segments |-> buf[3] \div 16,                      \* (packed >> 20) & 0x0F
    hex_data |-> <<buf[4], buf[5], buf[6], buf[7], buf[8]>> ]

\* What the sender puts on the wire (bit layout of HexTransfer.h).
PackInitFrame(line_count, file_checksum, init_msg_checksum) ==
  << (line_count % 128) * 2, line_count \div 128,
     file_checksum[2] % 256, file_checksum[2] \div 256,
     file_checksum[1] % 256, file_checksum[1] \div 256,
     init_msg_checksum % 256, init_msg_checksum \div 256 >>

PackSegmentFrame(line_num, segment_num, total_segments, data) ==
  << (line_num % 128) * 2 + 1, line_num \div 128,
     segment_num + 16 * total_segments,
     data[1], data[2], data[3], data[4], data[5] >>

\* ------------------------------------------------------------------------
\* HEX line parser
\* ------------------------------------------------------------------------
\* The line buffer is a sequence of MAX_HEX_LINE_SIZE bytes; buf[i] of the
\* code is At(buf, i).
At(buf, i) == buf[i + 1]

PadLine == [i \in 1..MAX_HEX_LINE_SIZE |-> PAD]

\* index of the first PAD, or MAX_HEX_LINE_SIZE (the while loops of
\* parse_and_validate_hex_line and add_hex_line_to_checksum)
LineLen(buf) ==
  LET pads == {n \in 0..(MAX_HEX_LINE_SIZE - 1) : At(buf, n) = PAD}
  IN  IF pads = {} THEN MAX_HEX_LINE_SIZE
      ELSE CHOOSE n \in pads : \A m \in pads : n <= m

IsHexDigit(c) == c \in (48..57) \cup (65..70) \cup (97..102)
HexDigitVal(c) == IF c <= 57 THEN c - 48 ELSE IF c <= 70 THEN c - 55 ELSE c - 87

\* sscanf(ptr, "%<width>x", &v) for text made of hex digits and other
\* printable non-blank, non-sign characters: converts the hex digits found at
\* ptr, at most width of them, and returns the number of fields assigned
\* (0 when the first character is no hex digit).  The result is
\* <<assigned, value>>.
RECURSIVE ScanDigits(_, _, _, _)
ScanDigits(buf, ptr, width, acc) ==
  IF width = 0 \/ ptr >= MAX_HEX_LINE_SIZE \/ ~IsHexDigit(At(buf, ptr)) THEN acc
  ELSE ScanDigits(buf, ptr + 1, width - 1,
                  <<acc[1] + 1, acc[2] * 16 + HexDigitVal(At(buf, ptr))>>)
sscanf_hex(buf, ptr, width) ==
  LET r == ScanDigits(buf, ptr, width, <<0, 0>>)
  IN  IF r[1] = 0 THEN <<0, 0>> ELSE <<1, r[2]>>

InvalidLine ==
  [valid |-> FALSE, byte_count |-> 0, address |-> 0, record_type |-> 0,
   data |-> <<>>, checksum |-> 0]

\* data bytes i..byte_count-1, each from two characters at ptr; <<FALSE>> when
\* a conversion assigns nothing
RECURSIVE ScanData(_, _, _, _)
ScanData(buf, ptr, n, acc) ==
  IF n = 0 THEN <<TRUE, acc, ptr>>
  ELSE LET r == sscanf_hex(buf, ptr, 2)
       IN  IF r[1] = 0 THEN <<FALSE, acc, ptr>>
           ELSE ScanData(buf, ptr + 2, n - 1, Append(acc, r[2]))

parse_and_validate_hex_line(buf) ==
  LET lineLen == LineLen(buf)
      bc == sscanf_hex(buf, 1, 2)
      ad == sscanf_hex(buf, 3, 4)
      rt == sscanf_hex(buf, 7, 2)
      dt == ScanData(buf, 9, bc[2], <<>>)
      ck == sscanf_hex(buf, dt[3], 2)
  IN  IF lineLen < 11 THEN InvalidLine                       \* Check 1
      ELSE IF At(buf, 0) # 58 THEN InvalidLine               \* Check 2: ':'
      ELSE IF bc[1] = 0 THEN InvalidLine                     \* Parse 1
      ELSE IF bc[2] > 16 THEN InvalidLine                    \* Check 3
      ELSE IF lineLen # 11 + bc[2] * 2 THEN InvalidLine      \* Check 4
      ELSE IF ad[1] = 0 THEN InvalidLine                     \* Parse 2
      ELSE IF rt[1] = 0 THEN InvalidLine                     \* Parse 3
      ELSE IF rt[2] > 5 THEN InvalidLine                     \* Check 5
      ELSE IF ~dt[1] THEN InvalidLine                        \* data bytes
      ELSE IF ck[1] = 0 THEN InvalidLine                     \* checksum
      ELSE [valid |-> TRUE, byte_count |-> bc[2], address |-> ad[2],
            record_type |-> rt[2], data |-> dt[2], checksum |-> ck[2]]

\* ------------------------------------------------------------------------
\* State
\* ------------------------------------------------------------------------
VARIABLES
  \* namespace HexTransfer (HexTransfer.cpp:10-118)
  flash_buffer_size,               \* uint32_t, set by the embedding program
  base_address,                    \* uint32_t
  min_address,                     \* uint32_t
  max_address,                     \* uint32_t
  eof_received,
  total_lines,
  received_file_checksum,          \* uint32_t
  hex_line_num,
  hex_line_segment_count,          \* int, -1 when no segment was seen
  hex_line_segments_received,      \* bool[hex_line_segment_count]; <<>> for nullptr
  hex_line_buf,                    \* char[MAX_HEX_LINE_SIZE]
  new_transfer_init_msg_received,
  transfer_init_msg_error,
  transfer_in_progress,
  file_transfer_complete,
  computed_file_checksum,          \* uint32_t
  CRC32,                           \* the running register of the FastCRC32 object
  \* the offsets (>= MAX_HEX_LINE_SIZE) behind hex_line_buf that the last call
  \* of process_transfer_segment_msg wrote.  What lives there depends on the
  \* link; the model records the write and none of its consequences.
  overrun,
  \* millis() - last_successful_can_msg_ts, the only way the code reads either
  elapsed,
  \* build and placement of the staging buffer: "dryrun" (DRYRUN != 0),
  \* "flash" (IN_FLASH(flash_buffer_addr)) or "ram"
  staging,
  \* what the last step did, as seen from outside
  response,                        \* argument of send_response, NoCall if none
  branch,                          \* the branch update() took
  frame_result,                    \* outcome of handle_can_msg
  staging_write,                   \* <<kind, address, length>> of the write made
  \* observers (no code reads them)
  accepted_lines,                  \* texts of the lines accepted since the last valid init
  since_accepted,                  \* ms since handle_can_msg last accepted a frame
  host                             \* position of the sending host in its file

prog_vars ==
  << base_address, min_address, max_address, eof_received, total_lines,
     received_file_checksum, hex_line_num, hex_line_segment_count,
     hex_line_segments_received, hex_line_buf, new_transfer_init_msg_received,
     transfer_init_msg_error, transfer_in_progress, file_transfer_complete,
     computed_file_checksum, CRC32, overrun >>

vars ==
  << flash_buffer_size, prog_vars, elapsed, staging, response, branch,
     frame_result, staging_write, accepted_lines, since_accepted, host >>

NoCall == 0 - 1
NoFrame == "none"
NoWrite == <<"none", U32Zero, 0>>

\* The program state as one record, so that a C++ function is an operator
\* from state to state.
Cur ==
  [ base_address |-> base_address, min_address |-> min_address,
    max_address |-> max_address, eof_received |-> eof_received,
    total_lines |-> total_lines,
    received_file_checksum |-> received_file_checksum,
    hex_line_num |-> hex_line_num,
    hex_line_segment_count |-> hex_line_segment_count,
    hex_line_segments_received |-> hex_line_segments_received,
    hex_line_buf |-> hex_line_buf,
    new_transfer_init_msg_received |-> new_transfer_init_msg_received,
    transfer_init_msg_error |-> transfer_init_msg_error,
    transfer_in_progress |-> transfer_in_progress,
    file_transfer_complete |-> file_transfer_complete,
    computed_file_checksum |-> computed_file_checksum,
    CRC32 |-> CRC32, overrun |-> overrun ]

Becomes(s) ==
  /\ base_address' = s.base_address
  /\ min_address' = s.min_address
  /\ max_address' = s.max_address
  /\ eof_received' = s.eof_received
  /\ total_lines' = s.total_lines
  /\ received_file_checksum' = s.received_file_checksum
  /\ hex_line_num' = s.hex_line_num
  /\ hex_line_segment_count' = s.hex_line_segment_count
  /\ hex_line_segments_received' = s.hex_line_segments_received
  /\ hex_line_buf' = s.hex_line_buf
  /\ new_transfer_init_msg_received' = s.new_transfer_init_msg_received
  /\ transfer_init_msg_error' = s.transfer_init_msg_error
  /\ transfer_in_progress' = s.transfer_in_progress
  /\ file_transfer_complete' = s.file_transfer_complete
  /\ computed_file_checksum' = s.computed_file_checksum
  /\ CRC32' = s.CRC32
  /\ overrun' = s.overrun

\* ------------------------------------------------------------------------
\* Helper functions
\* ------------------------------------------------------------------------
reset_cur_hex_line_buff(s) ==
  [s EXCEPT !.hex_line_segment_count = 0 - 1,
            !.hex_line_segments_received = <<>>,
            !.hex_line_buf = PadLine]

clear_transfer_state(s) ==
  reset_cur_hex_line_buff(
    [s EXCEPT !.base_address = U32Zero,
              !.min_address = U32Max,
              !.max_address = U32Zero,
              !.eof_received = FALSE,
              !.total_lines = 0,
              !.received_file_checksum = U32Zero,
              !.hex_line_num = 0,
              !.new_transfer_init_msg_received = FALSE,
              !.transfer_init_msg_error = FALSE,
              !.transfer_in_progress = FALSE,
              !.file_transfer_complete = FALSE,
              !.CRC32 = crc32_seed(<<>>),
              !.computed_file_checksum = crc_value(crc32_seed(<<>>))])

abort_transfer(s) == clear_transfer_state(s)

are_all_segments_received(s) ==
  \A i \in 0..(s.hex_line_segment_count - 1) : s.hex_line_segments_received[i + 1]

\* the bytes add_hex_line_to_checksum hands to crc32_upd
LineBytes(buf) == SubSeq(buf, 1, LineLen(buf))

add_hex_line_to_checksum(s) ==
  LET seed == crc32_upd_seed(s.CRC32, LineBytes(s.hex_line_buf))
  IN  [s EXCEPT !.CRC32 = seed, !.computed_file_checksum = crc_value(seed)]

\* variant: the comparison left out (every file passes)
is_file_checksum_valid_always(s) == s.computed_file_checksum = s.computed_file_checksum

is_file_checksum_valid(s) == s.computed_file_checksum = s.received_file_checksum

\* variant: the line timeout measured against the inactivity limit
has_segment_timed_out_late(e) == e > INACTIVITY_TIMEOUT_LEN

has_segment_timed_out(e) == e > HEX_LINE_TIMEOUT_LEN
has_transfer_timed_out(e) == e > INACTIVITY_TIMEOUT_LEN

\* ------------------------------------------------------------------------
\* CAN message handlers
\* ------------------------------------------------------------------------
\* Both return <<outcome, state>>; the code returns outcome = "..._ok" as true.

\* variant: an init with a bad checksum aborts the transfer under way
process_transfer_init_msg_abort_on_error(s, msg) ==
  IF msg.msg_type # 0 THEN <<"init_bad_type", s>>
  ELSE
    LET s1 == [s EXCEPT !.new_transfer_init_msg_received = TRUE]
    IN  IF msg.init_msg_checksum # msg.calculated_msg_checksum
        THEN <<"init_bad_checksum",
               [abort_transfer(s1) EXCEPT !.new_transfer_init_msg_received = TRUE,
                                          !.transfer_init_msg_error = TRUE]>>
        ELSE
          LET s2 == abort_transfer([s1 EXCEPT !.transfer_init_msg_error = FALSE])
          IN  <<"init_ok",
                [s2 EXCEPT !.transfer_in_progress = TRUE,
                           !.received_file_checksum = msg.file_checksum,
                           !.total_lines = msg.line_count]>>

\* variant: a valid init that does not abort the transfer under way
process_transfer_init_msg_no_abort(s, msg) ==
  IF msg.msg_type # 0 THEN <<"init_bad_type", s>>
  ELSE IF msg.init_msg_checksum # msg.calculated_msg_checksum
  THEN <<"init_bad_checksum", [s EXCEPT !.new_transfer_init_msg_received = TRUE,
                                        !.transfer_init_msg_error = TRUE]>>
  ELSE <<"init_ok",
         [s EXCEPT !.new_transfer_init_msg_received = FALSE,
                   !.transfer_init_msg_error = FALSE,
                   !.transfer_in_progress = TRUE,
                   !.received_file_checksum = msg.file_checksum,
                   !.total_lines = msg.line_count]>>

process_transfer_init_msg(s, msg) ==
  IF msg.msg_type # 0 THEN <<"init_bad_type", s>>
  ELSE
    LET s1 == [s EXCEPT !.new_transfer_init_msg_received = TRUE]
    IN  IF msg.init_msg_checksum # msg.calculated_msg_checksum
        THEN <<"init_bad_checksum", [s1 EXCEPT !.transfer_init_msg_error = TRUE]>>
        ELSE
          LET s2 == abort_transfer([s1 EXCEPT !.transfer_init_msg_error = FALSE])
          IN  <<"init_ok",
                [s2 EXCEPT !.transfer_in_progress = TRUE,
                           !.received_file_checksum = msg.file_checksum,
                           !.total_lines = msg.line_count]>>

\* hex_line_buf[segment_num * MAX_HEX_CHUNK_SIZE + i] = hex_data[i], i = 0..4
SegmentOffsets(segment_num) ==
  {segment_num * MAX_HEX_CHUNK_SIZE + i : i \in 0..(MAX_HEX_CHUNK_SIZE - 1)}

\* variant: the bytes of a segment are stored behind those that arrived before
CopySegment_in_arrival_order(s, msg) ==
  LET arrived == Cardinality({k \in 1..Len(s.hex_line_segments_received) :
                                s.hex_line_segments_received[k]})
      first == arrived * MAX_HEX_CHUNK_SIZE
  IN  [s EXCEPT
        !.hex_line_buf =
           [i \in 1..MAX_HEX_LINE_SIZE |->
              IF (i - 1) \in SegmentOffsets(arrived)
              THEN msg.hex_data[i - first] ELSE s.hex_line_buf[i]],
        !.overrun = {o \in SegmentOffsets(arrived) : o >= MAX_HEX_LINE_SIZE},
        !.hex_line_segments_received =
           [s.hex_line_segments_received EXCEPT ![msg.segment_num + 1] = TRUE]]

CopySegment(s, msg) ==
  LET first == msg.segment_num * MAX_HEX_CHUNK_SIZE
  IN  [s EXCEPT
        !.hex_line_buf =
           [i \in 1..MAX_HEX_LINE_SIZE |->
              IF (i - 1) \in SegmentOffsets(msg.segment_num)
              THEN msg.hex_data[i - first] ELSE s.hex_line_buf[i]],
        !.overrun = {o \in SegmentOffsets(msg.segment_num) : o >= MAX_HEX_LINE_SIZE},
        !.hex_line_segments_received =
           [s.hex_line_segments_received EXCEPT ![msg.segment_num + 1] = TRUE]]

\* variant: the line number of the segment is not compared
process_transfer_segment_msg_any_line(s, msg) ==
  LET first == s.hex_line_segment_count = 0 - 1
      s1 == IF first
            THEN [s EXCEPT !.hex_line_segment_count = msg.total_segments,
                           !.hex_line_segments_received =
                              [i \in 1..msg.total_segments |-> FALSE]]
            ELSE s
  IN  IF ~first /\ msg.total_segments # s.hex_line_segment_count
      THEN <<"total_mismatch", s>>
      ELSE IF msg.segment_num >= s1.hex_line_segment_count
      THEN <<"bad_index", s1>>
      ELSE <<"seg_ok", CopySegment(s1, msg)>>

\* variant: a segment whose received flag is already set is rejected
process_transfer_segment_msg_once(s, msg) ==
  IF msg.line_num # s.hex_line_num THEN <<"line_mismatch", s>>
  ELSE
    LET first == s.hex_line_segment_count = 0 - 1
        s1 == IF first
              THEN [s EXCEPT !.hex_line_segment_count = msg.total_segments,
                             !.hex_line_segments_received =
                                [i \in 1..msg.total_segments |-> FALSE]]
              ELSE s
    IN  IF ~first /\ msg.total_segments # s.hex_line_segment_count
        THEN <<"total_mismatch", s>>
        ELSE IF msg.segment_num >= s1.hex_line_segment_count
        THEN <<"bad_index", s1>>
        ELSE IF s1.hex_line_segments_received[msg.segment_num + 1]
        THEN <<"bad_index", s1>>
        ELSE <<"seg_ok", CopySegment(s1, msg)>>

\* variant: the segment number, not the total, is compared with the stored count
process_transfer_segment_msg_num_vs_total(s, msg) ==
  IF msg.line_num # s.hex_line_num THEN <<"line_mismatch", s>>
  ELSE
    LET first == s.hex_line_segment_count = 0 - 1
        s1 == IF first
              THEN [s EXCEPT !.hex_line_segment_count = msg.total_segments,
                             !.hex_line_segments_received =
                                [i \in 1..msg.total_segments |-> FALSE]]
              ELSE s
    IN  IF ~first /\ msg.segment_num # s.hex_line_segment_count
        THEN <<"total_mismatch", s>>
        ELSE IF msg.segment_num >= s1.hex_line_segment_count
        THEN <<"bad_index", s1>>
        ELSE <<"seg_ok", CopySegment(s1, msg)>>

process_transfer_segment_msg(s, msg) ==
  IF msg.line_num # s.hex_line_num THEN <<"line_mismatch", s>>
  ELSE
    LET first == s.hex_line_segment_count = 0 - 1
        s1 == IF first
              THEN [s EXCEPT !.hex_line_segment_count = msg.total_segments,
                             !.hex_line_segments_received =
                                [i \in 1..msg.total_segments |-> FALSE]]
              ELSE s
    IN  IF ~first /\ msg.total_segments # s.hex_line_segment_count
        THEN <<"total_mismatch", s>>
        ELSE IF msg.segment_num >= s1.hex_line_segment_count
        THEN <<"bad_index", s1>>
        ELSE <<"seg_ok", CopySegment(s1, msg)>>

\* ------------------------------------------------------------------------
\* Record processing.  Each returns the set of <<ok, state, write>> the call
\* can end in (more than one where the code reads an indeterminate value or
\* depends on the flash driver).
\* ------------------------------------------------------------------------
DataEnd(s, hex_line) ==
  U32Add(U32Add(s.base_address, U32OfInt(hex_line.address)), U32OfInt(hex_line.byte_count))
DataStart(s, hex_line) == U32Add(s.base_address, U32OfInt(hex_line.address))
StagingLimit(size) == U32Add(U32OfInt(FLASH_BASE_ADDR), size)

\* the write address relative to flash_buffer_addr:
\* base_address + hex_line.address - FLASH_BASE_ADDR
WriteOffset(s, hex_line) == U32Sub(DataStart(s, hex_line), U32OfInt(FLASH_BASE_ADDR))

process_hex_data_record(s, hex_line, size, stg) ==
  IF hex_line.record_type # 0 THEN {<<FALSE, s, NoWrite>>}
  ELSE
    LET s1 == [s EXCEPT
                 !.max_address = IF U32Gt(DataEnd(s, hex_line), s.max_address)
                                 THEN DataEnd(s, hex_line) ELSE s.max_address,
                 !.min_address = IF U32Lt(DataStart(s, hex_line), s.min_address)
                                 THEN DataStart(s, hex_line) ELSE s.min_address]
        off == WriteOffset(s, hex_line)
    IN  IF U32Gt(s1.max_address, StagingLimit(size)) THEN {<<FALSE, s1, NoWrite>>}
        ELSE IF stg = "dryrun" THEN {<<TRUE, s1, NoWrite>>}
        ELSE IF stg = "flash"
        THEN { <<TRUE, s1, <<"flash", off, hex_line.byte_count>>>>,
               <<FALSE, s1, <<"flash_error", off, hex_line.byte_count>>>> }
        ELSE {<<TRUE, s1, <<"ram", off, hex_line.byte_count>>>>}

\* variant: an EOF record is taken at any line
process_hex_eof_record_any_line(s, hex_line) ==
  IF hex_line.record_type # 1 THEN {<<FALSE, s, NoWrite>>}
  ELSE {<<TRUE, [s EXCEPT !.eof_received = TRUE], NoWrite>>}

\* variant: the EOF record is expected one line late
process_hex_eof_record_one_late(s, hex_line) ==
  IF hex_line.record_type # 1 THEN {<<FALSE, s, NoWrite>>}
  ELSE IF s.hex_line_num # s.total_lines THEN {<<FALSE, s, NoWrite>>}
  ELSE {<<TRUE, [s EXCEPT !.eof_received = TRUE], NoWrite>>}

\* hex_line_num != total_lines - 1 is evaluated on size_t: for total_lines = 0
\* the right side is SIZE_MAX, which no line number equals, as -1 here.
process_hex_eof_record(s, hex_line) ==
  IF hex_line.record_type # 1 THEN {<<FALSE, s, NoWrite>>}
  ELSE IF s.hex_line_num # s.total_lines - 1 THEN {<<FALSE, s, NoWrite>>}
  ELSE {<<TRUE, [s EXCEPT !.eof_received = TRUE], NoWrite>>}

\* (data[0] << 8) | data[1].  data[i] is assigned only for i < byte_count; an
\* unassigned element is indeterminate.
IndeterminateByte == {0, 255}
AddressWords(hex_line) ==
  LET d0 == IF hex_line.byte_count >= 1 THEN {hex_line.data[1]} ELSE IndeterminateByte
      d1 == IF hex_line.byte_count >= 2 THEN {hex_line.data[2]} ELSE IndeterminateByte
  IN  {a * 256 + b : a \in d0, b \in d1}

\* variant: the segment address word shifted like a linear address word
process_hex_extended_segment_address_record_shift16(s, hex_line) ==
  IF hex_line.record_type # 2 THEN {<<FALSE, s, NoWrite>>}
  ELSE {<<TRUE, [s EXCEPT !.base_address = U32Shl(w, 16)], NoWrite>> :
          w \in AddressWords(hex_line)}

process_hex_extended_segment_address_record(s, hex_line) ==
  IF hex_line.record_type # 2 THEN {<<FALSE, s, NoWrite>>}
  ELSE {<<TRUE, [s EXCEPT !.base_address = U32Shl(w, 4)], NoWrite>> :
          w \in AddressWords(hex_line)}

process_hex_start_segment_address_record(s, hex_line) ==
  IF hex_line.record_type # 3 THEN {<<FALSE, s, NoWrite>>} ELSE {<<TRUE, s, NoWrite>>}

process_hex_extended_linear_address_record(s, hex_line) ==
  IF hex_line.record_type # 4 THEN {<<FALSE, s, NoWrite>>}
  ELSE {<<TRUE, [s EXCEPT !.base_address = U32Shl(w, 16)], NoWrite>> :
          w \in AddressWords(hex_line)}

process_hex_start_linear_address_record(s, hex_line) ==
  IF hex_line.record_type # 5 THEN {<<FALSE, s, NoWrite>>} ELSE {<<TRUE, s, NoWrite>>}

process_hex_line(s, hex_line, size, stg) ==
  CASE hex_line.record_type = 0 -> process_hex_data_record(s, hex_line, size, stg)
    [] hex_line.record_type = 1 -> process_hex_eof_record(s, hex_line)
    [] hex_line.record_type = 2 -> process_hex_extended_segment_address_record(s, hex_line)
    [] hex_line.record_type = 3 -> process_hex_start_segment_address_record(s, hex_line)
    [] hex_line.record_type = 4 -> process_hex_extended_linear_address_record(s, hex_line)
    [] hex_line.record_type = 5 -> process_hex_start_linear_address_record(s, hex_line)
    [] OTHER -> {<<FALSE, s, NoWrite>>}

\* The set of [s, res, branch, write] handle_received_hex_line can end in.

\* variant: the line is added to the checksum before it is processed
handle_received_hex_line_checksum_first(s, size, stg) ==
  LET hex_line == parse_and_validate_hex_line(s.hex_line_buf)
  IN  IF ~hex_line.valid
      THEN {[s |-> reset_cur_hex_line_buff(s), res |-> SEND_LINE,
             branch |-> "line_parse_fail", write |-> NoWrite]}
      ELSE
        { IF ~o[1]
          THEN [s |-> reset_cur_hex_line_buff(o[2]), res |-> SEND_LINE,
                branch |-> "line_process_fail", write |-> o[3]]
          ELSE [s |-> reset_cur_hex_line_buff(
                        [o[2] EXCEPT !.hex_line_num = o[2].hex_line_num + 1]),
                res |-> SEND_LINE, branch |-> "line_ok", write |-> o[3]]
          : o \in process_hex_line(add_hex_line_to_checksum(s), hex_line, size, stg) }

\* variant: an accepted line is left in the line buffer
handle_received_hex_line_keeps_line(s, size, stg) ==
  LET hex_line == parse_and_validate_hex_line(s.hex_line_buf)
  IN  IF ~hex_line.valid
      THEN {[s |-> reset_cur_hex_line_buff(s), res |-> SEND_LINE,
             branch |-> "line_parse_fail", write |-> NoWrite]}
      ELSE
        { IF ~o[1]
          THEN [s |-> reset_cur_hex_line_buff(o[2]), res |-> SEND_LINE,
                branch |-> "line_process_fail", write |-> o[3]]
          ELSE [s |-> [add_hex_line_to_checksum(o[2]) EXCEPT
                         !.hex_line_num = o[2].hex_line_num + 1],
                res |-> SEND_LINE, branch |-> "line_ok", write |-> o[3]]
          : o \in process_hex_line(s, hex_line, size, stg) }

handle_received_hex_line(s, size, stg) ==
  LET hex_line == parse_and_validate_hex_line(s.hex_line_buf)
  IN  IF ~hex_line.valid
      THEN {[s |-> reset_cur_hex_line_buff(s), res |-> SEND_LINE,
             branch |-> "line_parse_fail", write |-> NoWrite]}
      ELSE
        { IF ~o[1]
          THEN [s |-> reset_cur_hex_line_buff(o[2]), res |-> SEND_LINE,
                branch |-> "line_process_fail", write |-> o[3]]
          ELSE [s |-> reset_cur_hex_line_buff(
                        [add_hex_line_to_checksum(o[2]) EXCEPT
                           !.hex_line_num = o[2].hex_line_num + 1]),
                res |-> SEND_LINE, branch |-> "line_ok", write |-> o[3]]
          : o \in process_hex_line(s, hex_line, size, stg) }

\* ------------------------------------------------------------------------
\* update(): the set of [s, res, branch, write] one call can end in, for the
\* state s and e = millis() - last_successful_can_msg_ts.  res = NoCall
\* stands for the early return, which never reaches send_response.
\* ------------------------------------------------------------------------
\* variant: the line timeout is tested before the inactivity timeout
update_outcomes_line_timeout_first(s, e, size, stg) ==
  IF ~s.transfer_in_progress
  THEN {[s |-> s, res |-> NoCall, branch |-> "idle", write |-> NoWrite]}
  ELSE IF has_segment_timed_out(e)
  THEN {[s |-> s, res |-> SEND_LINE, branch |-> "line_timeout", write |-> NoWrite]}
  ELSE IF has_transfer_timed_out(e)
  THEN {[s |-> abort_transfer(s), res |-> ERROR, branch |-> "inactivity",
         write |-> NoWrite]}
  ELSE IF s.new_transfer_init_msg_received
  THEN {[s |-> s,
         res |-> IF s.transfer_init_msg_error THEN ERROR ELSE SEND_LINE,
         branch |-> "init_pending", write |-> NoWrite]}
  ELSE IF are_all_segments_received(s)
  THEN handle_received_hex_line(s, size, stg)
  ELSE IF s.eof_received
  THEN IF ~is_file_checksum_valid(s)
       THEN {[s |-> abort_transfer(s), res |-> ERROR, branch |-> "file_checksum",
              write |-> NoWrite]}
       ELSE {[s |-> [s EXCEPT !.transfer_in_progress = FALSE,
                              !.file_transfer_complete = TRUE],
              res |-> TRANSFER_COMPLETE, branch |-> "complete", write |-> NoWrite]}
  ELSE {[s |-> s, res |-> NONE, branch |-> "nothing", write |-> NoWrite]}

\* variant: update() without its early return when no transfer is in progress
update_outcomes_no_idle_return(s, e, size, stg) ==
  IF has_transfer_timed_out(e)
  THEN {[s |-> abort_transfer(s), res |-> ERROR, branch |-> "inactivity",
         write |-> NoWrite]}
  ELSE IF has_segment_timed_out(e)
  THEN {[s |-> s, res |-> SEND_LINE, branch |-> "line_timeout", write |-> NoWrite]}
  ELSE IF s.new_transfer_init_msg_received
  THEN {[s |-> s,
         res |-> IF s.transfer_init_msg_error THEN ERROR ELSE SEND_LINE,
         branch |-> "init_pending", write |-> NoWrite]}
  ELSE IF are_all_segments_received(s)
  THEN handle_received_hex_line(s, size, stg)
  ELSE IF s.eof_received
  THEN IF ~is_file_checksum_valid(s)
       THEN {[s |-> abort_transfer(s), res |-> ERROR, branch |-> "file_checksum",
              write |-> NoWrite]}
       ELSE {[s |-> [s EXCEPT !.transfer_in_progress = FALSE,
                              !.file_transfer_complete = TRUE],
              res |-> TRANSFER_COMPLETE, branch |-> "complete", write |-> NoWrite]}
  ELSE {[s |-> s, res |-> NONE, branch |-> "nothing", write |-> NoWrite]}

\* variant: reporting a pending init clears its flags, so that lines are
\* processed again after a bad init
update_outcomes_init_report_clears(s, e, size, stg) ==
  IF ~s.transfer_in_progress
  THEN {[s |-> s, res |-> NoCall, branch |-> "idle", write |-> NoWrite]}
  ELSE IF has_transfer_timed_out(e)
  THEN {[s |-> abort_transfer(s), res |-> ERROR, branch |-> "inactivity",
         write |-> NoWrite]}
  ELSE IF has_segment_timed_out(e)
  THEN {[s |-> s, res |-> SEND_LINE, branch |-> "line_timeout", write |-> NoWrite]}
  ELSE IF s.new_transfer_init_msg_received
  THEN {[s |-> [s EXCEPT !.new_transfer_init_msg_received = FALSE,
                         !.transfer_init_msg_error = FALSE],
         res |-> IF s.transfer_init_msg_error THEN ERROR ELSE SEND_LINE,
         branch |-> "init_pending", write |-> NoWrite]}
  ELSE IF are_all_segments_received(s)
  THEN handle_received_hex_line(s, size, stg)
  ELSE IF s.eof_received
  THEN IF ~is_file_checksum_valid(s)
       THEN {[s |-> abort_transfer(s), res |-> ERROR, branch |-> "file_checksum",
              write |-> NoWrite]}
       ELSE {[s |-> [s EXCEPT !.transfer_in_progress = FALSE,
                              !.file_transfer_complete = TRUE],
              res |-> TRANSFER_COMPLETE, branch |-> "complete", write |-> NoWrite]}
  ELSE {[s |-> s, res |-> NONE, branch |-> "nothing", write |-> NoWrite]}

\* variant: completion leaves transfer_in_progress set
update_outcomes_complete_in_progress(s, e, size, stg) ==
  IF ~s.transfer_in_progress
  THEN {[s |-> s, res |-> NoCall, branch |-> "idle", write |-> NoWrite]}
  ELSE IF has_transfer_timed_out(e)
  THEN {[s |-> abort_transfer(s), res |-> ERROR, branch |-> "inactivity",
         write |-> NoWrite]}
  ELSE IF has_segment_timed_out(e)
  THEN {[s |-> s, res |-> SEND_LINE, branch |-> "line_timeout", write |-> NoWrite]}
  ELSE IF s.new_transfer_init_msg_received
  THEN {[s |-> s,
         res |-> IF s.transfer_init_msg_error THEN ERROR ELSE SEND_LINE,
         branch |-> "init_pending", write |-> NoWrite]}
  ELSE IF are_all_segments_received(s)
  THEN handle_received_hex_line(s, size, stg)
  ELSE IF s.eof_received
  THEN IF ~is_file_checksum_valid(s)
       THEN {[s |-> abort_transfer(s), res |-> ERROR, branch |-> "file_checksum",
              write |-> NoWrite]}
       ELSE {[s |-> [s EXCEPT !.file_transfer_complete = TRUE],
              res |-> TRANSFER_COMPLETE, branch |-> "complete", write |-> NoWrite]}
  ELSE {[s |-> s, res |-> NONE, branch |-> "nothing", write |-> NoWrite]}

update_outcomes(s, e, size, stg) ==
  IF ~s.transfer_in_progress
  THEN {[s |-> s, res |-> NoCall, branch |-> "idle", write |-> NoWrite]}
  ELSE IF has_transfer_timed_out(e)
  THEN {[s |-> abort_transfer(s), res |-> ERROR, branch |-> "inactivity",
         write |-> NoWrite]}
  ELSE IF has_segment_timed_out(e)
  THEN {[s |-> s, res |-> SEND_LINE, branch |-> "line_timeout", write |-> NoWrite]}
  ELSE IF s.new_transfer_init_msg_received
  THEN {[s |-> s,
         res |-> IF s.transfer_init_msg_error THEN ERROR ELSE SEND_LINE,
         branch |-> "init_pending", write |-> NoWrite]}
  ELSE IF are_all_segments_received(s)
  THEN handle_received_hex_line(s, size, stg)
  ELSE IF s.eof_received
  THEN IF ~is_file_checksum_valid(s)
       THEN {[s |-> abort_transfer(s), res |-> ERROR, branch |-> "file_checksum",
              write |-> NoWrite]}
       ELSE {[s |-> [s EXCEPT !.transfer_in_progress = FALSE,
                              !.file_transfer_complete = TRUE],
              res |-> TRANSFER_COMPLETE, branch |-> "complete", write |-> NoWrite]}
  ELSE {[s |-> s, res |-> NONE, branch |-> "nothing", write |-> NoWrite]}

\* ------------------------------------------------------------------------
\* Inputs
\* ------------------------------------------------------------------------
\* HEX lines the sender draws its segments from (ASCII codes).
LineData == <<58, 48, 49, 48, 48, 48, 48, 48, 48, 52, 49, 66, 69>>   \* :0100000041BE
LineEof == <<58, 48, 48, 48, 48, 48, 48, 48, 49, 70, 70>>            \* :00000001FF

\* segment k of a line: its bytes 5k..5k+4, padded with PAD
Chunk(line, k) ==
  [i \in 1..MAX_HEX_CHUNK_SIZE |->
     IF k * MAX_HEX_CHUNK_SIZE + i <= Len(line)
     THEN line[k * MAX_HEX_CHUNK_SIZE + i] ELSE PAD]
SegmentsOf(line) ==
  (Len(line) + MAX_HEX_CHUNK_SIZE - 1) \div MAX_HEX_CHUNK_SIZE

\* CRC-32 of the concatenated lines of a file, as the sender declares it
RECURSIVE Concat(_)
Concat(lines) == IF lines = <<>> THEN <<>> ELSE Head(lines) \o Concat(Tail(lines))
FileCrc(lines) == crc_value(crc32_seed(Concat(lines)))

MaxLineNum == 1
MaxElapsed == 15001

\* <<line_count, file_checksum>> of the init frames
InitHeaders ==
  { <<1, FileCrc(<<LineEof>>)>>, <<1, FileCrc(<<LineData, LineEof>>)>>,
    <<2, FileCrc(<<LineData, LineEof>>)>> }
InitChecksums == {4660}
\* values the over-read CRC of unpack_transfer_init_msg may take: one whose
\* low 16 bits equal the checksum sent, one whose low 16 bits do not
OverreadCrc == {<<43690, 4660>>, <<48059, 22136>>}

InitFrames ==
  {PackInitFrame(h[1], h[2], k) : h \in InitHeaders, k \in InitChecksums}

\* <<segment_num, total_segments>> of the segment frames
SegmentHeaders == {<<0, 3>>, <<1, 3>>, <<2, 3>>}
OddSegmentHeaders == {<<1, 1>>, <<9, 10>>}
\* <<line_num, segment_num, total_segments, hex_data>> the sender packs
SegmentInputs ==
  {<<n, h[1], h[2], Chunk(l, h[1])>> :
     n \in 0..MaxLineNum, h \in SegmentHeaders, l \in {LineData, LineEof}}
  \cup
  {<<n, h[1], h[2], Chunk(LineData, 0)>> :
     n \in 0..MaxLineNum, h \in OddSegmentHeaders}
SegmentFrames == {PackSegmentFrame(m[1], m[2], m[3], m[4]) : m \in SegmentInputs}

TickSteps == {5000, 10001}
StagingSizes == {<<0, 16>>}

\* ------------------------------------------------------------------------
\* Initial state: the zero-initialised globals after HexTransfer::init()
\* ------------------------------------------------------------------------
ZeroState ==
  [ base_address |-> U32Zero, min_address |-> U32Zero, max_address |-> U32Zero,
    eof_received |-> FALSE, total_lines |-> 0, received_file_checksum |-> U32Zero,
    hex_line_num |-> 0, hex_line_segment_count |-> 0,
    hex_line_segments_received |-> <<>>,
    hex_line_buf |-> [i \in 1..MAX_HEX_LINE_SIZE |-> 0],
    new_transfer_init_msg_received |-> FALSE, transfer_init_msg_error |-> FALSE,
    transfer_in_progress |-> FALSE, file_transfer_complete |-> FALSE,
    computed_file_checksum |-> U32Zero, CRC32 |-> CRC_SEED_INIT, overrun |-> {} ]

InitWith(stagings, hosts) ==
  /\ flash_buffer_size \in StagingSizes
  /\ staging \in stagings
  /\ \E s \in {clear_transfer_state(ZeroState)} :
       /\ base_address = s.base_address
       /\ min_address = s.min_address
       /\ max_address = s.max_address
       /\ eof_received = s.eof_received
       /\ total_lines = s.total_lines
       /\ received_file_checksum = s.received_file_checksum
       /\ hex_line_num = s.hex_line_num
       /\ hex_line_segment_count = s.hex_line_segment_count
       /\ hex_line_segments_received = s.hex_line_segments_received
       /\ hex_line_buf = s.hex_line_buf
       /\ new_transfer_init_msg_received = s.new_transfer_init_msg_received
       /\ transfer_init_msg_error = s.transfer_init_msg_error
       /\ transfer_in_progress = s.transfer_in_progress
       /\ file_transfer_complete = s.file_transfer_complete
       /\ computed_file_checksum = s.computed_file_checksum
       /\ CRC32 = s.CRC32
       /\ overrun = s.overrun
  /\ elapsed = 0
  /\ response = NoCall
  /\ branch = "none"
  /\ frame_result = NoFrame
  /\ staging_write = NoWrite
  /\ accepted_lines = <<>>
  /\ since_accepted = 0
  /\ host \in hosts

\* the build of the repository: HexTransfer.h defines DRYRUN 1
Init == InitWith({"dryrun"}, {<<"off", 0, 0, <<>>>>})

\* ------------------------------------------------------------------------
\* Actions
\* ------------------------------------------------------------------------
Min(a, b) == IF a < b THEN a ELSE b

\* HexTransfer::init()
init ==
  /\ Becomes(clear_transfer_state([Cur EXCEPT !.overrun = {}]))
  /\ response' = NoCall
  /\ branch' = "none"
  /\ frame_result' = NoFrame
  /\ staging_write' = NoWrite
  /\ accepted_lines' = <<>>
  /\ UNCHANGED <<flash_buffer_size, staging, elapsed, since_accepted>>

\* variant: handle_can_msg answers a bad init frame itself with an ERROR
handle_can_msg_sends_error(buf, calc) ==
  /\ branch' = "none"
  /\ staging_write' = NoWrite
  /\ UNCHANGED <<flash_buffer_size, staging>>
  /\ IF buf[1] % 2 = 0
     THEN LET msg == unpack_transfer_init_msg(buf, calc)
              r == process_transfer_init_msg(
                     [Cur EXCEPT !.CRC32 = U32Not(calc), !.overrun = {}], msg)
          IN  /\ Becomes(r[2])
              /\ frame_result' = r[1]
              /\ response' = IF r[1] = "init_bad_checksum" THEN ERROR ELSE NoCall
              /\ elapsed' = IF r[1] = "init_ok" THEN 0 ELSE elapsed
              /\ since_accepted' = IF r[1] = "init_ok" THEN 0 ELSE since_accepted
              /\ accepted_lines' = IF r[1] = "init_ok" THEN <<>> ELSE accepted_lines
     ELSE IF transfer_in_progress
     THEN LET msg == unpack_transfer_segment_msg(buf)
              r == process_transfer_segment_msg([Cur EXCEPT !.overrun = {}], msg)
          IN  /\ Becomes(r[2])
              /\ frame_result' = r[1]
              /\ response' = NoCall
              /\ elapsed' = IF r[1] = "seg_ok" THEN 0 ELSE elapsed
              /\ since_accepted' = IF r[1] = "seg_ok" THEN 0 ELSE since_accepted
              /\ UNCHANGED accepted_lines
     ELSE /\ Becomes([Cur EXCEPT !.overrun = {}])
          /\ frame_result' = "seg_idle"
          /\ response' = NoCall
          /\ elapsed' = 0
          /\ UNCHANGED <<since_accepted, accepted_lines>>

\* variant: a segment frame is processed whether or not a transfer is in
\* progress
handle_can_msg_segment_always(buf, calc) ==
  /\ response' = NoCall
  /\ branch' = "none"
  /\ staging_write' = NoWrite
  /\ UNCHANGED <<flash_buffer_size, staging>>
  /\ IF buf[1] % 2 = 0
     THEN LET msg == unpack_transfer_init_msg(buf, calc)
              r == process_transfer_init_msg(
                     [Cur EXCEPT !.CRC32 = U32Not(calc), !.overrun = {}], msg)
          IN  /\ Becomes(r[2])
              /\ frame_result' = r[1]
              /\ elapsed' = IF r[1] = "init_ok" THEN 0 ELSE elapsed
              /\ since_accepted' = IF r[1] = "init_ok" THEN 0 ELSE since_accepted
              /\ accepted_lines' = IF r[1] = "init_ok" THEN <<>> ELSE accepted_lines
     ELSE LET msg == unpack_transfer_segment_msg(buf)
              r == process_transfer_segment_msg([Cur EXCEPT !.overrun = {}], msg)
          IN  /\ Becomes(r[2])
              /\ frame_result' = r[1]
              /\ elapsed' = IF r[1] = "seg_ok" THEN 0 ELSE elapsed
              /\ since_accepted' = IF r[1] = "seg_ok" THEN 0 ELSE since_accepted
              /\ UNCHANGED accepted_lines

\* HexTransfer::handle_can_msg(buf).  calc is the value of the over-read CRC
\* (used by an init frame only); last_successful_can_msg_ts = millis() is
\* elapsed' = 0.
handle_can_msg(buf, calc) ==
  /\ response' = NoCall
  /\ branch' = "none"
  /\ staging_write' = NoWrite
  /\ UNCHANGED <<flash_buffer_size, staging>>
  /\ IF buf[1] % 2 = 0
     THEN LET msg == unpack_transfer_init_msg(buf, calc)
              r == process_transfer_init_msg(
                     [Cur EXCEPT !.CRC32 = U32Not(calc), !.overrun = {}], msg)
          IN  /\ Becomes(r[2])
              /\ frame_result' = r[1]
              /\ elapsed' = IF r[1] = "init_ok" THEN 0 ELSE elapsed
              /\ since_accepted' = IF r[1] = "init_ok" THEN 0 ELSE since_accepted
              /\ accepted_lines' = IF r[1] = "init_ok" THEN <<>> ELSE accepted_lines
     ELSE IF transfer_in_progress
     THEN LET msg == unpack_transfer_segment_msg(buf)
              r == process_transfer_segment_msg([Cur EXCEPT !.overrun = {}], msg)
          IN  /\ Becomes(r[2])
              /\ frame_result' = r[1]
              /\ elapsed' = IF r[1] = "seg_ok" THEN 0 ELSE elapsed
              /\ since_accepted' = IF r[1] = "seg_ok" THEN 0 ELSE since_accepted
              /\ UNCHANGED accepted_lines
     ELSE /\ Becomes([Cur EXCEPT !.overrun = {}])
          /\ frame_result' = "seg_idle"
          /\ elapsed' = 0
          /\ UNCHANGED <<since_accepted, accepted_lines>>

\* HexTransfer::update()
update ==
  \E o \in update_outcomes([Cur EXCEPT !.overrun = {}], elapsed,
                           flash_buffer_size, staging) :
    /\ Becomes(o.s)
    /\ response' = o.res
    /\ branch' = o.branch
    /\ staging_write' = o.write
    /\ frame_result' = NoFrame
    /\ accepted_lines' =
         IF o.branch = "line_ok"
         THEN Append(accepted_lines, LineBytes(hex_line_buf))
         ELSE accepted_lines
    /\ UNCHANGED <<flash_buffer_size, staging, elapsed, since_accepted>>

\* millis() advances by d
Tick(d) ==
  /\ elapsed + d <= MaxElapsed
  /\ elapsed' = elapsed + d
  /\ since_accepted' = Min(since_accepted + d, MaxElapsed)
  /\ response' = NoCall
  /\ branch' = "none"
  /\ frame_result' = NoFrame
  /\ staging_write' = NoWrite
  /\ Becomes([Cur EXCEPT !.overrun = {}])
  /\ UNCHANGED <<flash_buffer_size, staging, accepted_lines>>

Next ==
  \/ \E buf \in InitFrames, calc \in OverreadCrc :
       handle_can_msg(buf, calc) /\ UNCHANGED host
  \/ \E buf \in SegmentFrames : handle_can_msg(buf, U32Zero) /\ UNCHANGED host
  \/ update /\ UNCHANGED host
  \/ init /\ UNCHANGED host
  \/ \E d \in TickSteps : Tick(d) /\ UNCHANGED host

Spec == Init /\ [][Next]_vars

\* ------------------------------------------------------------------------
\* A session with a sender that follows the protocol.  host is
\* <<phase, line, segment>>: "init" before the init frame is sent, "wait"
\* while the sender waits for a SEND_LINE, "send" while it sends the segments
\* of a line.  The response frame of the code carries no line number
\* (pack_response is empty), so the sender is given the line the receiver
\* expects, hex_line_num.
\* ------------------------------------------------------------------------
\* ------------------------------------------------------------------------
\* Sessions that exercise the staging region: the three builds, a staging
\* region of 16 bytes, and files made of two records followed by the EOF
\* record.
\* ------------------------------------------------------------------------
LineDataAtLimit == <<58, 48, 49, 48, 48, 48, 70, 48, 48, 52, 49, 65, 70>>
  \* :01000F0041AF, one byte at 0x000F: ends at 0x0010
LineDataPastLimit == <<58, 48, 49, 48, 48, 49, 48, 48, 48, 52, 49, 65, 69>>
  \* :0100100041AE, one byte at 0x0010: ends at 0x0011
LineExtLinearHigh == <<58, 48, 50, 48, 48, 48, 48, 48, 52, 70, 70, 70, 70, 70, 67>>
  \* :02000004FFFFFC, upper 16 address bits 0xFFFF
LineDataWrap == <<58, 48, 49, 70, 70, 70, 70, 48, 48, 52, 49, 67, 48>>
  \* :01FFFF0041C0, one byte at 0xFFFF
StagingLines ==
  {LineData, LineDataAtLimit, LineDataPastLimit, LineExtLinearHigh, LineDataWrap}
StagingFiles == {<<a, b, LineEof>> : a \in StagingLines, b \in StagingLines}

\* the files a sender may hold: HEX lines, the last one the EOF record
HostFiles == {<<LineEof>>, <<LineData, LineEof>>, <<LineData, LineData, LineEof>>}

\* per file, the init frame the sender builds (line_count the number of
\* lines, file_checksum the CRC-32 of the lines) and a CRC the receiver may
\* compute for it, equal in its low 16 bits to the checksum sent
HostSessions ==
  { [file |-> f, calc |-> c,
     frame |-> PackInitFrame(Len(f), FileCrc(f), c[2])] :
      f \in HostFiles \cup StagingFiles,
      c \in {x \in OverreadCrc : x[2] \in InitChecksums} }

InitHost == InitWith({"dryrun"}, {<<"init", 0, 0, f>> : f \in HostFiles})

HostSendInit ==
  /\ host[1] = "init"
  /\ \E ses \in HostSessions :
       /\ ses.file = host[4]
       /\ handle_can_msg(ses.frame, ses.calc)
  /\ host' = <<"wait", 0, 0, host[4]>>

\* the next segment of the line being sent
HostSendSegment ==
  /\ host[1] = "send"
  /\ LET line == host[4][host[2] + 1]
     IN  /\ handle_can_msg(
              PackSegmentFrame(host[2], host[3], SegmentsOf(line),
                               Chunk(line, host[3])), U32Zero)
         /\ host' = IF host[3] + 1 < SegmentsOf(line)
                    THEN <<"send", host[2], host[3] + 1, host[4]>>
                    ELSE <<"wait", host[2], 0, host[4]>>

\* update(); on SEND_LINE the sender starts (again) the line asked for
HostUpdate ==
  /\ update
  /\ host' = IF response' = SEND_LINE /\ host[1] \in {"wait", "send"}
                 /\ hex_line_num' < Len(host[4])
             THEN <<"send", hex_line_num', 0, host[4]>>
             ELSE host

\* time passes, never more than HEX_LINE_TIMEOUT_LEN since the last frame
HostTick(d) ==
  /\ elapsed + d <= HEX_LINE_TIMEOUT_LEN
  /\ Tick(d)
  /\ UNCHANGED host

NextHost ==
  \/ HostSendInit
  \/ HostSendSegment
  \/ HostUpdate
  \/ \E d \in TickSteps : HostTick(d)

\* update() is called again and again, and the sender sends what it has to
SpecHost ==
  /\ InitHost
  /\ [][NextHost]_vars
  /\ WF_vars(HostUpdate)
  /\ WF_vars(HostSendInit)
  /\ WF_vars(HostSendSegment)

InitStaging ==
  InitWith({"dryrun", "flash", "ram"}, {<<"init", 0, 0, f>> : f \in StagingFiles})

SpecStaging == InitStaging /\ [][NextHost]_vars

\* ------------------------------------------------------------------------
\* Properties
\* ------------------------------------------------------------------------
\* C1: a session in which the sender delivers every line of its file in the
\* order requested, without a gap of more than HEX_LINE_TIMEOUT_LEN ms, and
\* update() keeps being called, ends with TRANSFER_COMPLETE emitted, once,
\* and no ERROR emitted.
C1_SessionCompletes ==
  /\ <>(response = TRANSFER_COMPLETE)
  /\ [](response # ERROR)
  /\ [][response' = TRANSFER_COMPLETE => ~file_transfer_complete]_vars

\* a step of update(): the only action that leaves branch different from "none"
UpdateStep == branch' # "none"

\* the record type of an accepted line text, as the parser reads it
Padded(bytes) ==
  [i \in 1..MAX_HEX_LINE_SIZE |-> IF i <= Len(bytes) THEN bytes[i] ELSE PAD]
RecordTypeOf(bytes) == parse_and_validate_hex_line(Padded(bytes)).record_type
EofAccepted ==
  \E i \in 1..Len(accepted_lines) : RecordTypeOf(accepted_lines[i]) = 1

\* C2: update() emits TRANSFER_COMPLETE, and file_transfer_complete is set,
\* only when an EOF record was accepted in the current session and the
\* computed CRC equals the expected CRC.
C2_CompleteOnlyAfterValidEof ==
  (response = TRANSFER_COMPLETE \/ file_transfer_complete)
    => /\ EofAccepted
       /\ eof_received
       /\ computed_file_checksum = received_file_checksum
       /\ (response = TRANSFER_COMPLETE => file_transfer_complete)

C2_Witness ==
  /\ response = TRANSFER_COMPLETE
  /\ file_transfer_complete
  /\ EofAccepted
\* the state every reset leaves: line index 0, checksum zeroed, address
\* bounds reset, reassembler cleared, no EOF, not complete
IsResetState ==
  /\ hex_line_num = 0
  /\ computed_file_checksum = U32Zero
  /\ CRC32 = CRC_SEED_INIT
  /\ base_address = U32Zero
  /\ min_address = U32Max
  /\ max_address = U32Zero
  /\ hex_line_segment_count = 0 - 1
  /\ hex_line_segments_received = <<>>
  /\ hex_line_buf = PadLine
  /\ ~eof_received
  /\ ~file_transfer_complete

\* C5: a valid InitMsg, received in any state, resets the whole transfer
\* state, then stores the line count and the file CRC of the message and
\* sets transfer_in_progress.
C5_ValidInitResets ==
  [][\A h \in InitHeaders, k \in InitChecksums, calc \in OverreadCrc :
       (/\ frame_result' \in {"init_ok", "init_bad_checksum", "init_bad_type"}
        /\ calc[2] = k
        /\ handle_can_msg(PackInitFrame(h[1], h[2], k), calc))
         => /\ frame_result' = "init_ok"
            /\ IsResetState'
            /\ total_lines' = h[1]
            /\ received_file_checksum' = h[2]
            /\ transfer_in_progress'
            /\ elapsed' = 0]_vars

\* a valid init was accepted and its header stored
C5_Witness ==
  /\ frame_result = "init_ok"
  /\ IsResetState
  /\ transfer_in_progress
  /\ total_lines = 2
  /\ received_file_checksum = FileCrc(<<LineData, LineEof>>)

\* C6: with more than INACTIVITY_TIMEOUT_LEN ms since the last accepted frame
\* and a transfer in progress, update() aborts, emits ERROR and leaves the
\* device idle, whatever else is pending; an update() of an idle device calls
\* send_response not at all and changes nothing, so the ERROR is emitted once.
C6_InactivityAbort ==
  [][UpdateStep =>
       /\ (transfer_in_progress /\ since_accepted > INACTIVITY_TIMEOUT_LEN)
            => /\ response' = ERROR
               /\ branch' = "inactivity"
               /\ ~transfer_in_progress'
               /\ IsResetState'
       /\ ~transfer_in_progress
            => /\ response' = NoCall
               /\ UNCHANGED prog_vars]_vars

\* update() took the inactivity branch and left the device idle
C6_Witness ==
  /\ branch = "inactivity"
  /\ response = ERROR
  /\ ~transfer_in_progress
  /\ since_accepted > INACTIVITY_TIMEOUT_LEN

\* C7: a segment whose line number differs from hex_line_num is rejected and
\* leaves the reassembly state (and everything else) as it was.
C7_WrongLineRejected ==
  /\ [](\A m \in SegmentInputs :
          m[1] # hex_line_num
            => process_transfer_segment_msg(
                 Cur, unpack_transfer_segment_msg(
                        PackSegmentFrame(m[1], m[2], m[3], m[4])))
               = <<"line_mismatch", Cur>>)
  /\ [][frame_result' = "line_mismatch"
          => /\ UNCHANGED << hex_line_buf, hex_line_segments_received,
                             hex_line_segment_count, hex_line_num,
                             computed_file_checksum, CRC32, eof_received,
                             elapsed >>
             /\ overrun' = {}]_vars

\* a segment was rejected for its line number while a line was half received
C7_Witness ==
  /\ frame_result = "line_mismatch"
  /\ hex_line_segment_count = 3
  /\ \E i \in 1..3 : hex_line_segments_received[i]

\* C4: an update() whose line fails parsing or record processing leaves
\* hex_line_num and computed_file_checksum unchanged; apart from the resets
\* to zero, both change only in an update() whose line parsed and processed,
\* and then hex_line_num grows by 1 and computed_file_checksum is the CRC it
\* was, continued over exactly the bytes of that line.
C4_FailedLineKeepsIndexAndCrc ==
  [][/\ branch' \in {"line_parse_fail", "line_process_fail"}
          => UNCHANGED <<hex_line_num, computed_file_checksum>>
     /\ branch' = "line_ok"
          => /\ hex_line_num' = hex_line_num + 1
             /\ computed_file_checksum' =
                  crc_value(crc32_upd_seed(U32Not(computed_file_checksum),
                                           LineBytes(hex_line_buf)))
     /\ (hex_line_num' # hex_line_num
           \/ computed_file_checksum' # computed_file_checksum)
          => \/ branch' = "line_ok"
             \/ hex_line_num' = 0 /\ computed_file_checksum' = U32Zero]_vars

\* a line failed in record processing after another line had been accepted
C4_Witness ==
  /\ branch = "line_process_fail"
  /\ hex_line_num = 1
  /\ computed_file_checksum # U32Zero

\* C8: every accepted segment has segment_num < total_segments and
\* segment_num < MAX_CHUNKS_PER_HEX_LINE, so that its bytes land inside
\* hex_line_buf[0..44] and the received flags are set only at 0..8.
C8_SegmentsInsideBuffer ==
  /\ overrun = {}
  /\ \A i \in DOMAIN hex_line_segments_received :
        hex_line_segments_received[i] => i - 1 < MAX_CHUNKS_PER_HEX_LINE
  /\ frame_result = "seg_ok" =>
        \E i \in 1..MAX_CHUNKS_PER_HEX_LINE : hex_line_segments_received[i]

\* C10: an update() of an idle device on which an init frame with a bad
\* checksum is pending emits ERROR and leaves transfer_in_progress false.
C10_BadInitReportedWhileIdle ==
  [][(/\ UpdateStep
      /\ ~transfer_in_progress
      /\ new_transfer_init_msg_received
      /\ transfer_init_msg_error)
       => /\ response' = ERROR
          /\ ~transfer_in_progress']_vars

\* C3: with the EOF record accepted, no segment of a further line received,
\* no timeout elapsed, no init pending and computed_file_checksum different
\* from received_file_checksum, update() emits ERROR and leaves the device
\* idle with the transfer state reset; TRANSFER_COMPLETE is never emitted
\* while the two checksums differ.
C3_FileChecksumMismatchReported ==
  /\ [][(/\ UpdateStep
          /\ transfer_in_progress
          /\ eof_received
          /\ hex_line_segment_count = 0 - 1
          /\ ~has_segment_timed_out(elapsed)
          /\ ~new_transfer_init_msg_received
          /\ computed_file_checksum # received_file_checksum)
           => /\ response' = ERROR
              /\ ~transfer_in_progress'
              /\ IsResetState']_vars
  /\ [](response = TRANSFER_COMPLETE
          => computed_file_checksum = received_file_checksum)

\* the true (unwrapped) end base_address + address + byte_count of a data
\* record compared with FLASH_BASE_ADDR + flash_buffer_size
EndWraps(hl) ==
  \/ U32Carry(base_address, U32OfInt(hl.address))
  \/ U32Carry(DataStart(Cur, hl), U32OfInt(hl.byte_count))
EndPastLimit(hl) ==
  EndWraps(hl) \/ U32Gt(DataEnd(Cur, hl), StagingLimit(flash_buffer_size))
EndAtLimit(hl) ==
  ~EndWraps(hl) /\ DataEnd(Cur, hl) = StagingLimit(flash_buffer_size)
EndOnePastLimit(hl) ==
  /\ ~EndWraps(hl)
  /\ DataEnd(Cur, hl) = U32Add(StagingLimit(flash_buffer_size), U32OfInt(1))

\* C9: update() writes to the staging region (flash or RAM) only for a
\* record of type 0 whose end base_address + address + byte_count does not
\* exceed FLASH_BASE_ADDR + flash_buffer_size; a data record that ends
\* exactly at that limit is accepted, one that ends one byte past it is
\* rejected.
C9_StagingWritesInRange ==
  [][UpdateStep =>
       LET hl == parse_and_validate_hex_line(hex_line_buf)
           processed == branch' \in {"line_ok", "line_process_fail"}
       IN  /\ staging_write'[1] # "none"
                => hl.valid /\ hl.record_type = 0 /\ ~EndPastLimit(hl)
           /\ (processed /\ hl.record_type = 0 /\ EndAtLimit(hl))
                => branch' = "line_ok" \/ staging_write'[1] = "flash_error"
           /\ (processed /\ hl.record_type = 0 /\ EndOnePastLimit(hl))
                => branch' = "line_process_fail"]_vars

\* the transfer state a frame may not touch when it is refused
TransferState ==
  << transfer_in_progress, file_transfer_complete, total_lines,
     received_file_checksum, hex_line_num, computed_file_checksum,
     eof_received, base_address, min_address, max_address, hex_line_buf,
     hex_line_segments_received, hex_line_segment_count >>

\* C11: handling an init frame whose checksum does not match leaves
\* transfer_in_progress, file_transfer_complete, total_lines,
\* received_file_checksum, hex_line_num, computed_file_checksum,
\* eof_received, the address bounds and the line buffer, its received flags
\* and its segment count as they were.
C11_BadInitKeepsTransferState ==
  [][\A h \in InitHeaders, k \in InitChecksums, calc \in OverreadCrc :
       (/\ frame_result' \in {"init_ok", "init_bad_checksum", "init_bad_type"}
        /\ calc[2] # k
        /\ handle_can_msg(PackInitFrame(h[1], h[2], k), calc))
         => /\ frame_result' = "init_bad_checksum"
            /\ UNCHANGED TransferState]_vars

\* an init frame with a bad checksum was handled while a line was half
\* received, after another line had been accepted
C11_Witness ==
  /\ frame_result = "init_bad_checksum"
  /\ transfer_in_progress
  /\ hex_line_num = 1
  /\ hex_line_segment_count = 3
  /\ \E i \in 1..3 : hex_line_segments_received[i]

\* ------------------------------------------------------------------------
\* C12: whenever update() emits ERROR the session is over: transfer_in_progress
\* is false after that update(), and no HEX line is accepted until a new valid
\* init frame has been handled.  SessionOver is the state the session is in
\* from an ERROR until the next valid init: idle, or blocked behind the error
\* flag of a bad init.
\* ------------------------------------------------------------------------
SessionOver == ~transfer_in_progress \/ transfer_init_msg_error

\* the part the code keeps: after an ERROR no line is accepted until a valid
\* init
NoLineAfterError ==
  /\ [][(UpdateStep /\ response' = ERROR) => SessionOver']_vars
  /\ [][(SessionOver /\ frame_result' # "init_ok")
          => (SessionOver' /\ branch' # "line_ok")]_vars

C12_ErrorEndsSession ==
  /\ [][(UpdateStep /\ response' = ERROR) => ~transfer_in_progress']_vars
  /\ NoLineAfterError
\* ------------------------------------------------------------------------
\* C13: no response is emitted while a frame is handled: send_response is
\* invoked only from within update(), never from handle_can_msg or the
\* functions it calls.
\* ------------------------------------------------------------------------
C13_ResponsesOnlyFromUpdate ==
  /\ [][frame_result' # NoFrame => response' = NoCall]_vars
  /\ [][response' # NoCall => UpdateStep]_vars

\* a bad init frame handled while idle: the error is flagged, nothing is sent
C13_Witness ==
  /\ frame_result = "init_bad_checksum"
  /\ transfer_init_msg_error
  /\ ~transfer_in_progress
  /\ response = NoCall

\* ------------------------------------------------------------------------
\* C14: each call of update() emits at most one response, and a call made
\* while transfer_in_progress is false emits no response at all and changes
\* no state.
\* ------------------------------------------------------------------------
\* everything update() could write: the session, the two init flags, the CRC
\* register, the timestamp and the staging buffer
SessionState ==
  << TransferState, new_transfer_init_msg_received, transfer_init_msg_error,
     CRC32, elapsed, flash_buffer_size, staging >>

C14_OneResponseNoneWhileIdle ==
  /\ [][UpdateStep =>
          response' \in {NoCall, NONE, SEND_LINE, TRANSFER_COMPLETE, ERROR}]_vars
  /\ [][(UpdateStep /\ ~transfer_in_progress)
          => /\ response' = NoCall
             /\ staging_write' = NoWrite
             /\ UNCHANGED SessionState]_vars

\* update() called again after the transfer completed
C14_Witness ==
  /\ branch = "idle"
  /\ response = NoCall
  /\ file_transfer_complete

\* ------------------------------------------------------------------------
\* C15: while a transfer is in progress with no pending init, no timeout
\* elapsed, EOF not seen and the current line not complete (including the case
\* where no segment of the current line has been accepted yet), update() emits
\* no response and changes no state; the SEND_LINE for the stalled line comes
\* only once the 5000 ms line timeout has elapsed.
\* ------------------------------------------------------------------------
\* the line is not complete: no segment has fixed the count yet, or a segment
\* of the count is missing
LineIncomplete ==
  \/ hex_line_segment_count = 0 - 1
  \/ \E i \in 1..hex_line_segment_count : ~hex_line_segments_received[i]

C15_StalledLineWaitsForTimeout ==
  [][(/\ UpdateStep
      /\ transfer_in_progress
      /\ ~new_transfer_init_msg_received
      /\ ~has_segment_timed_out(elapsed)
      /\ since_accepted <= HEX_LINE_TIMEOUT_LEN
      /\ ~eof_received
      /\ LineIncomplete)
        => /\ response' \in {NoCall, NONE}
           /\ UNCHANGED SessionState]_vars

\* ------------------------------------------------------------------------
\* C16: while a transfer is in progress, an update() called more than 5000 ms
\* but not more than 15000 ms after the last accepted frame emits SEND_LINE
\* for the unchanged hex_line_num and changes no session state: the current
\* line is neither processed nor reset, even if it is complete or EOF was
\* seen.
\* ------------------------------------------------------------------------
C16_LineTimeoutRequestsResend ==
  [][(/\ UpdateStep
      /\ transfer_in_progress
      /\ since_accepted > HEX_LINE_TIMEOUT_LEN
      /\ since_accepted <= INACTIVITY_TIMEOUT_LEN)
        => /\ response' = SEND_LINE
           /\ branch' = "line_timeout"
           /\ staging_write' = NoWrite
           /\ UNCHANGED accepted_lines
           /\ UNCHANGED SessionState]_vars

\* the line timeout found a complete line in the buffer and left it there
C16_Witness ==
  /\ branch = "line_timeout"
  /\ response = SEND_LINE
  /\ transfer_in_progress
  /\ hex_line_segment_count = 3
  /\ \A i \in 1..3 : hex_line_segments_received[i]

\* ------------------------------------------------------------------------
\* The program of Spec with a record of what has happened kept in host:
\* host[1] is "armed" from a valid init frame until the next update() and
\* "run" after it, host[2] = 1 when the frame just handled was a segment that
\* had been accepted before with the same bytes.
\* ------------------------------------------------------------------------
Observed(phase, again) == <<phase, again, 0, <<>>>>

\* the segment repeats one the current line already holds
IsRepeat(s, msg) ==
  /\ s.transfer_in_progress
  /\ msg.line_num = s.hex_line_num
  /\ msg.total_segments = s.hex_line_segment_count
  /\ msg.segment_num < s.hex_line_segment_count
  /\ s.hex_line_segments_received[msg.segment_num + 1]
  /\ \A i \in 1..MAX_HEX_CHUNK_SIZE :
       LET at == msg.segment_num * MAX_HEX_CHUNK_SIZE + i
       IN  at <= MAX_HEX_LINE_SIZE => s.hex_line_buf[at] = msg.hex_data[i]

ObsInitFrame(buf, calc) ==
  /\ handle_can_msg(buf, calc)
  /\ host' = Observed(IF frame_result' = "init_ok" THEN "armed" ELSE host[1], 0)

ObsSegmentFrame(buf) ==
  /\ handle_can_msg(buf, U32Zero)
  /\ host' = Observed(host[1],
                      IF IsRepeat(Cur, unpack_transfer_segment_msg(buf))
                      THEN 1 ELSE 0)

ObsUpdate ==
  /\ update
  /\ host' = Observed(IF host[1] = "off" THEN "off" ELSE "run", 0)

ObsReset ==
  /\ init
  /\ host' = Observed("off", 0)

ObsTick(d) ==
  /\ Tick(d)
  /\ host' = Observed(host[1], 0)

NextObs ==
  \/ \E buf \in InitFrames, calc \in OverreadCrc : ObsInitFrame(buf, calc)
  \/ \E buf \in SegmentFrames : ObsSegmentFrame(buf)
  \/ ObsUpdate
  \/ ObsReset
  \/ \E d \in TickSteps : ObsTick(d)

SpecObs == Init /\ [][NextObs]_vars

\* ------------------------------------------------------------------------
\* C17: the first update() called after a valid init frame was handled
\* (before the 5000 ms line timeout, and with no bad init in between) emits
\* SEND_LINE with hex_line_num = 0 and leaves the session in progress, ready
\* to receive line 0.
\* ------------------------------------------------------------------------
C17_FirstUpdateRequestsLineZero ==
  [][(/\ UpdateStep
      /\ host[1] = "armed"
      /\ ~transfer_init_msg_error
      /\ ~has_segment_timed_out(elapsed))
        => /\ response' = SEND_LINE
           /\ hex_line_num' = 0
           /\ transfer_in_progress']_vars

\* ------------------------------------------------------------------------
\* The reassembly of one line: after a valid init only segment frames are
\* handled, with no update() to process the line.
\* ------------------------------------------------------------------------
NextReassembly ==
  \/ \E buf \in InitFrames, calc \in OverreadCrc :
       /\ calc[2] \in InitChecksums
       /\ ObsInitFrame(buf, calc)
  \/ \E buf \in SegmentFrames : ObsSegmentFrame(buf)

SpecReassembly == Init /\ [][NextReassembly]_vars

\* ------------------------------------------------------------------------
\* C18: for one line, any two arrival orders of the same set of segments
\* (same segment number, total and bytes), with no update() in between, leave
\* the reassembler in the same state: same text buffer, same received mask,
\* same completeness, and therefore the same parsed record.  Stated for two
\* neighbouring segments, from every reachable state; any reordering is a
\* sequence of such exchanges.
\* ------------------------------------------------------------------------
SegmentMsgs == {unpack_transfer_segment_msg(buf) : buf \in SegmentFrames}

\* pairs of segments of one line: same line and total, different positions
\* (segments of another line than the current one are dropped, see C7)
SegmentPairs ==
  {p \in SegmentMsgs \X SegmentMsgs :
     /\ p[1].line_num = p[2].line_num
     /\ p[1].total_segments = p[2].total_segments
     /\ p[1].segment_num < p[2].segment_num}

\* the record parsed from hex_line_buf is a function of the buffer alone
Reassembler(s) ==
  << s.hex_line_buf, s.hex_line_segments_received, s.hex_line_segment_count,
     are_all_segments_received(s) >>

AfterSegments(s, m1, m2) ==
  process_transfer_segment_msg(process_transfer_segment_msg(s, m1)[2], m2)[2]

C18_SegmentOrderIrrelevant ==
  transfer_in_progress =>
    LET s == Cur
    IN  \A p \in SegmentPairs :
          p[1].line_num = s.hex_line_num =>
            Reassembler(AfterSegments(s, p[1], p[2]))
              = Reassembler(AfterSegments(s, p[2], p[1]))

\* the last segment of a line accepted before its first one
C18_Witness ==
  /\ frame_result = "seg_ok"
  /\ hex_line_segment_count = 3
  /\ hex_line_segments_received[3]
  /\ hex_line_segments_received[2]
  /\ ~hex_line_segments_received[1]

\* ------------------------------------------------------------------------
\* C19: delivering an already accepted segment of the current line again
\* (same line number, segment number, total and bytes) is accepted and leaves
\* the text buffer, the received mask and the segment count exactly as after
\* its first delivery.
\* ------------------------------------------------------------------------
LineState(s) ==
  << s.hex_line_buf, s.hex_line_segments_received, s.hex_line_segment_count >>

\* the same state, its received mask written out element by element (the
\* evaluator needs the mask of an intermediate state in this form before a
\* second EXCEPT at the same index)
Enumerated(s) ==
  [s EXCEPT !.hex_line_segments_received =
              [k \in DOMAIN s.hex_line_segments_received |->
                 s.hex_line_segments_received[k]]]

C19_RepeatedSegmentIdempotent ==
  transfer_in_progress =>
    LET s == Cur
    IN  \A m \in SegmentMsgs :
          /\ LET once == process_transfer_segment_msg(s, m)
                 twice == process_transfer_segment_msg(Enumerated(once[2]), m)
             IN  once[1] = "seg_ok" =>
                   /\ twice[1] = "seg_ok"
                   /\ LineState(twice[2]) = LineState(once[2])
          /\ IsRepeat(s, m) =>
               LET again == process_transfer_segment_msg(s, m)
               IN  /\ again[1] = "seg_ok"
                   /\ LineState(again[2]) = LineState(s)

\* a segment the line already held was handled and accepted
C19_Witness ==
  /\ host[2] = 1
  /\ frame_result = "seg_ok"
  /\ hex_line_segment_count = 3

\* ------------------------------------------------------------------------
\* C20: once the first accepted segment of a line has fixed the segment
\* count, a later segment of that line is rejected for a totals mismatch
\* exactly when its total field differs from the stored count: total is
\* compared with total, never the segment number with the total, so a segment
\* carrying the stored total and a segment number below it is accepted.
\* ------------------------------------------------------------------------
C20_TotalComparedWithTotal ==
  (transfer_in_progress /\ hex_line_segment_count # 0 - 1) =>
    LET s == Cur
    IN  \A m \in SegmentMsgs :
          m.line_num = s.hex_line_num =>
            LET r == process_transfer_segment_msg(s, m)
            IN  /\ r[1] = "total_mismatch"
                     <=> m.total_segments # s.hex_line_segment_count
                /\ r[1] = "total_mismatch" => r[2] = s
                /\ (/\ m.total_segments = s.hex_line_segment_count
                    /\ m.segment_num < m.total_segments) => r[1] = "seg_ok"

\* a segment with another total arrived after one of the line was accepted
C20_Witness ==
  /\ frame_result = "total_mismatch"
  /\ hex_line_segment_count = 3
  /\ \E i \in 1..3 : hex_line_segments_received[i]

\* ------------------------------------------------------------------------
\* C21: an EOF record (type 1) is accepted, setting eof_received, exactly when
\* hex_line_num equals total_lines - 1 at the time it is processed; at any
\* other line index it fails and is treated as a failed line.
\* ------------------------------------------------------------------------
\* update() handed a valid line to process_hex_line
LineProcessed == branch' \in {"line_ok", "line_process_fail"}

CurrentRecordType == parse_and_validate_hex_line(hex_line_buf).record_type

C21_EofOnlyAsLastLine ==
  /\ [][(LineProcessed /\ CurrentRecordType = 1)
          => /\ branch' = "line_ok" <=> hex_line_num = total_lines - 1
             /\ branch' = "line_ok" =>
                  (eof_received' /\ hex_line_num' = hex_line_num + 1)
             /\ branch' = "line_process_fail" =>
                  /\ response' = SEND_LINE
                  /\ UNCHANGED << eof_received, hex_line_num,
                                  computed_file_checksum, accepted_lines >>
                  /\ hex_line_segment_count' = 0 - 1]_vars
  /\ [][(eof_received' /\ ~eof_received)
          => (branch' = "line_ok" /\ CurrentRecordType = 1)]_vars

\* the EOF record accepted as the second of two lines
C21_Witness ==
  /\ branch = "line_ok"
  /\ eof_received
  /\ total_lines = 2
  /\ hex_line_num = 2

\* ------------------------------------------------------------------------
\* C22: at the moment the EOF record is accepted, the number of HEX lines
\* folded into computed_file_checksum since the last valid init frame
\* (counting the EOF line itself) equals total_lines.
\* ------------------------------------------------------------------------
C22_LineCountAtEof ==
  [][(branch' = "line_ok" /\ CurrentRecordType = 1)
        => /\ Len(accepted_lines') = total_lines'
           /\ accepted_lines'[Len(accepted_lines')] = LineBytes(hex_line_buf)
           /\ hex_line_num' = total_lines']_vars

\* a file of the EOF record alone
C22_Witness ==
  /\ branch = "line_ok"
  /\ eof_received
  /\ total_lines = 1
  /\ accepted_lines = <<LineEof>>

\* ------------------------------------------------------------------------
\* Sessions that exercise the address records: files of an extended address
\* record, a data record and the EOF record, or of two such pairs, sent by
\* the sender of SpecHost to the dry-run and the RAM build.
\* ------------------------------------------------------------------------
LineExtSegment16 == <<58, 48, 50, 48, 48, 48, 48, 48, 50, 48, 48, 48, 49, 70, 66>>
  \* :020000020001FB, type 2, word 0x0001: base 0x10
LineExtSegmentHigh == <<58, 48, 50, 48, 48, 48, 48, 48, 50, 49, 50, 51, 52, 66, 54>>
  \* :020000021234B6, type 2, word 0x1234: base 0x12340
LineExtLinearZero == <<58, 48, 50, 48, 48, 48, 48, 48, 52, 48, 48, 48, 48, 70, 65>>
  \* :020000040000FA, type 4, word 0x0000: base 0
LineExtLinearOne == <<58, 48, 50, 48, 48, 48, 48, 48, 52, 48, 48, 48, 49, 70, 57>>
  \* :020000040001F9, type 4, word 0x0001: base 0x10000
LineExtSegmentEmpty == <<58, 48, 48, 48, 48, 48, 48, 48, 50, 70, 69>>
  \* :00000002FE, type 2 with no data bytes
AddressLines ==
  { LineExtSegment16, LineExtSegmentHigh, LineExtLinearZero, LineExtLinearOne,
    LineExtLinearHigh, LineExtSegmentEmpty }
AddressFiles ==
  {<<a, LineData, LineEof>> : a \in AddressLines}
  \cup {<<LineExtLinearZero, LineData, a, LineData, LineEof>> :
          a \in {LineExtSegment16, LineExtLinearOne}}

AddressSessions ==
  { [file |-> f, calc |-> c,
     frame |-> PackInitFrame(Len(f), FileCrc(f), c[2])] :
      f \in AddressFiles,
      c \in {x \in OverreadCrc : x[2] \in InitChecksums} }

InitAddress ==
  InitWith({"dryrun", "ram"}, {<<"init", 0, 0, f>> : f \in AddressFiles})

AddressSendInit ==
  /\ host[1] = "init"
  /\ \E ses \in AddressSessions :
       /\ ses.file = host[4]
       /\ handle_can_msg(ses.frame, ses.calc)
  /\ host' = <<"wait", 0, 0, host[4]>>

NextAddress ==
  \/ AddressSendInit
  \/ HostSendSegment
  \/ HostUpdate
  \/ \E d \in TickSteps : HostTick(d)

SpecAddress == InitAddress /\ [][NextAddress]_vars

\* ------------------------------------------------------------------------
\* C23: after a record of type 2 or 4 is accepted, base_address equals
\* ((data[0] << 8) | data[1]) shifted left by 4 (type 2) or by 16 (type 4),
\* and every data record processed afterwards, until the next type 2/4 record
\* or a reset of the session, computes its address range from that
\* base_address.
\* ------------------------------------------------------------------------
CurrentRecord == parse_and_validate_hex_line(hex_line_buf)

\* the range [start, end) of the data record in the buffer, from base_address
CurrentDataStart == U32Add(base_address, U32OfInt(CurrentRecord.address))
CurrentDataEnd == U32Add(CurrentDataStart, U32OfInt(CurrentRecord.byte_count))

C23_BaseAddressFromAddressRecords ==
  /\ [][(branch' = "line_ok" /\ CurrentRecord.record_type \in {2, 4})
          => LET k == IF CurrentRecord.record_type = 2 THEN 4 ELSE 16
             IN  /\ base_address' \in {U32Shl(w, k) : w \in AddressWords(CurrentRecord)}
                 /\ CurrentRecord.byte_count >= 2 =>
                      base_address' =
                        U32Shl(CurrentRecord.data[1] * 256 + CurrentRecord.data[2], k)]_vars
  /\ [][base_address' # base_address
          => \/ branch' = "line_ok" /\ CurrentRecord.record_type \in {2, 4}
             \/ frame_result' = "init_ok"
             \/ branch' \in {"inactivity", "file_checksum"}]_vars
  /\ [][(LineProcessed /\ CurrentRecord.record_type = 0)
          => /\ max_address' = IF U32Gt(CurrentDataEnd, max_address)
                               THEN CurrentDataEnd ELSE max_address
             /\ min_address' = IF U32Lt(CurrentDataStart, min_address)
                               THEN CurrentDataStart ELSE min_address
             /\ staging_write' # NoWrite =>
                  staging_write'[2] = U32Sub(CurrentDataStart, U32OfInt(FLASH_BASE_ADDR))
             /\ UNCHANGED base_address]_vars

\* a data record placed from the base a type 2 record set: 0x10 + 0 + 1
C23_Witness ==
  /\ base_address = U32(0, 16)
  /\ max_address = U32(0, 17)
  /\ min_address = U32(0, 16)
  /\ branch = "line_process_fail"

\* ------------------------------------------------------------------------
\* C24: an init frame is accepted exactly when the low 16 bits of the
\* standard CRC-32 computed over wire bytes 0..5 of the frame (msg_type,
\* line_count, file_checksum) equal the frame's bits 48..63
\* (init_msg_checksum).
\* ------------------------------------------------------------------------
\* low 16 bits of the CRC-32 of the first six bytes of the frame
WireChecksum(buf) == crc_value(crc32_seed(SubSeq(buf, 1, 6)))[2]

\* the init frames whose checksum field is the one the wire bytes call for
WireValidInitFrames ==
  {buf \in InitFrames : WireChecksum(buf) = buf[7] + 256 * buf[8]}

C24_InitAcceptedOnWireChecksum ==
  [][\A buf \in InitFrames, calc \in OverreadCrc :
       (/\ frame_result' \in {"init_ok", "init_bad_checksum"}
        /\ handle_can_msg(buf, calc))
         => (frame_result' = "init_ok" <=> buf \in WireValidInitFrames)]_vars

\* ------------------------------------------------------------------------
\* C25: at every point of a session, computed_file_checksum equals the CRC-32
\* of the concatenation, in acceptance order, of the unpadded bytes of exactly
\* the lines accepted since the last valid init frame, whatever other frames
\* (rejected segments, init frames with a bad checksum) were handled between
\* those lines.
\* ------------------------------------------------------------------------
C25_ChecksumOfAcceptedLines ==
  (transfer_in_progress \/ file_transfer_complete)
    => computed_file_checksum = FileCrc(accepted_lines)

\* a bad init frame was handled after a line had been accepted
C25_Witness ==
  /\ transfer_in_progress
  /\ transfer_init_msg_error
  /\ accepted_lines = <<LineData>>
  /\ CRC32 # crc32_upd_seed(CRC_SEED_INIT, LineData)

\* ------------------------------------------------------------------------
\* Sessions that exercise the line parser: one-line files, sent by the sender
\* of SpecHost, whose line is at a limit of a check of
\* parse_and_validate_hex_line or has a character that is no hex digit.
\* ------------------------------------------------------------------------
LineData16 ==
  <<58, 49, 48, 48, 48, 48, 48, 48, 48, 52, 49, 52, 49, 52, 49, 52, 49, 52,
  49, 52, 49, 52, 49, 52, 49, 52, 49, 52, 49, 52, 49, 52, 49, 52, 49, 52,
  49, 52, 49, 52, 49, 69, 48>>
  \* :1000000041414141414141414141414141414141E0, 16 data bytes, 43 characters
LineData17 ==
  <<58, 49, 49, 48, 48, 48, 48, 48, 48, 52, 49, 52, 49, 52, 49, 52, 49, 52,
  49, 52, 49, 52, 49, 52, 49, 52, 49, 52, 49, 52, 49, 52, 49, 52, 49, 52,
  49, 52, 49, 52, 49, 52, 49, 57, 69>>
  \* :1100000041414141414141414141414141414141419E, byte_count 17, 45 characters: no PAD in the buffer
LineShort == <<58, 48, 48, 48, 48, 48, 48, 48, 49, 70>>
  \* :00000001F, 10 characters
LineNoColon == <<59, 48, 48, 48, 48, 48, 48, 48, 49, 70, 70>>
  \* ;00000001FF, no colon
LineType6 == <<58, 48, 48, 48, 48, 48, 48, 48, 54, 70, 65>>
  \* :00000006FA, record type 6
LineLengthOff ==
  <<58, 48, 49, 48, 48, 48, 48, 48, 48, 52, 49, 66, 69, 48, 48>>
  \* :0100000041BE00, byte_count 1 in 15 characters
LineStartLinear == <<58, 48, 48, 48, 48, 48, 48, 48, 53, 70, 66>>
  \* :00000005FB, record type 5, no data
LineHalfHexCount == <<58, 48, 71, 48, 48, 48, 48, 48, 49, 70, 70>>
  \* :0G000001FF, byte_count field '0G'
LineHalfHexAddress == <<58, 48, 48, 48, 71, 48, 48, 48, 49, 70, 70>>
  \* :000G0001FF, address field '0G00'
LineNoHexType == <<58, 48, 48, 48, 48, 48, 48, 71, 49, 70, 70>>
  \* :000000G1FF, record type field 'G1'
ParseLines ==
  { LineEof, LineData, LineData16, LineData17, LineShort, LineNoColon,
    LineType6, LineLengthOff, LineStartLinear, LineHalfHexCount,
    LineHalfHexAddress, LineNoHexType }
ParseFiles == {<<l>> : l \in ParseLines}

ParseSessions ==
  { [file |-> f, calc |-> c,
     frame |-> PackInitFrame(Len(f), FileCrc(f), c[2])] :
      f \in ParseFiles,
      c \in {x \in OverreadCrc : x[2] \in InitChecksums} }

InitParse == InitWith({"dryrun"}, {<<"init", 0, 0, f>> : f \in ParseFiles})

ParseSendInit ==
  /\ host[1] = "init"
  /\ \E ses \in ParseSessions :
       /\ ses.file = host[4]
       /\ handle_can_msg(ses.frame, ses.calc)
  /\ host' = <<"wait", 0, 0, host[4]>>

NextParse ==
  \/ ParseSendInit
  \/ HostSendSegment
  \/ HostUpdate
  \/ \E d \in TickSteps : HostTick(d)

SpecParse == InitParse /\ [][NextParse]_vars

\* ------------------------------------------------------------------------
\* C26: parse_and_validate_hex_line returns valid = true exactly for buffers
\* whose length L up to the first PAD satisfies L >= 11, text[0] = ':',
\* byte_count <= 16, L = 11 + 2 * byte_count and record_type <= 5, all fields
\* being hex digits: byte_count 0 and 16 are accepted and 17 rejected; L = 11
\* and L = 43 are accepted and L = 10 rejected.
\* ------------------------------------------------------------------------
\* the value of the two hex digits at buf[i], buf[i + 1]
TwoDigits(buf, i) == HexDigitVal(At(buf, i)) * 16 + HexDigitVal(At(buf, i + 1))

WellFormedLine(buf) ==
  LET L == LineLen(buf)
  IN  /\ L >= 11
      /\ At(buf, 0) = 58
      /\ \A i \in 1..(L - 1) : IsHexDigit(At(buf, i))
      /\ TwoDigits(buf, 1) <= 16
      /\ L = 11 + 2 * TwoDigits(buf, 1)
      /\ TwoDigits(buf, 7) <= 5

\* update() parsed the line in the buffer
LineParsed == branch' \in {"line_parse_fail", "line_process_fail", "line_ok"}

C26_ParserAcceptsWellFormedOnly ==
  [][LineParsed => (branch' # "line_parse_fail" <=> WellFormedLine(hex_line_buf))]_vars

\* ------------------------------------------------------------------------
\* C27: each ERROR response emitted by update() carries the ErrorCode of the
\* condition that caused it: INACTIVITY_TIMEOUT for the inactivity abort, the
\* init checksum code for an init frame with a bad checksum, and the file
\* checksum code for a file CRC mismatch, so that the host can tell the three
\* causes apart.
\* ------------------------------------------------------------------------
\* enum class ErrorCode
ErrorCode_NONE == 0
TRANSFER_NOT_IN_PROGRESS == 1
TRANSFER_INIT_CHECKSUM_ERROR == 2
TRANSFER_RETRY_LIMIT_EXCEEDED == 3
INACTIVITY_TIMEOUT == 4
FILE_CHECKSUM_ERROR == 5

\* the err argument of the one call update() makes, send_response(res): the
\* default of the declaration, whatever branch set res
send_response_err(res) == ErrorCode_NONE

\* the code the cause of an ERROR calls for
CauseOf(b) ==
  IF b = "inactivity" THEN INACTIVITY_TIMEOUT
  ELSE IF b = "init_pending" THEN TRANSFER_INIT_CHECKSUM_ERROR
  ELSE IF b = "file_checksum" THEN FILE_CHECKSUM_ERROR
  ELSE ErrorCode_NONE

C27_ErrorCarriesCause ==
  [][(UpdateStep /\ response' = ERROR)
        => send_response_err(response') = CauseOf(branch')]_vars

\* ------------------------------------------------------------------------
\* C28: the 8-byte frame built for a response carries the response code in
\* the low nibble of byte 0 (NONE = 0, SEND_LINE = 1, TRANSFER_COMPLETE = 2,
\* ERROR = 3), so that the frames built for two different response codes
\* differ, and a SEND_LINE frame carries the requested line number.
\* ------------------------------------------------------------------------
\* pack_response(res, buf): <<return value, buf afterwards>>.  The body
\* writes nothing to buf.
pack_response(res, buf) == <<TRUE, buf>>

\* the buffer send_response(res) has built when pack_response returns:
\* uint8_t buf[8] = {0}, then pack_response(res, buf)
send_response_frame(res) == pack_response(res, [i \in 1..8 |-> 0])[2]

ResponseCodes == {NONE, SEND_LINE, TRANSFER_COMPLETE, ERROR}

C28_ResponseFrameCarriesCode ==
  [][(UpdateStep /\ response' # NoCall)
        => /\ send_response_frame(response')[1] % 16 = response'
           /\ \A r \in ResponseCodes \ {response'} :
                 send_response_frame(r) # send_response_frame(response')]_vars

\* ------------------------------------------------------------------------
\* C29: when update() finds the current line complete and the line parses
\* and is processed successfully (no timeout, no pending init), that single
\* step folds the bytes of the line into computed_file_checksum, increments
\* hex_line_num by exactly 1, resets the current-line state to empty (buffer
\* all PAD, segment count unknown, no segment marked) and emits SEND_LINE,
\* hex_line_num then being the new line.  Such an update() either accepts
\* the line or fails in record processing, and a line is accepted in no
\* other situation.
\* ------------------------------------------------------------------------
LineReady ==
  /\ transfer_in_progress
  /\ elapsed <= HEX_LINE_TIMEOUT_LEN
  /\ ~new_transfer_init_msg_received
  /\ hex_line_segment_count > 0
  /\ are_all_segments_received(Cur)
  /\ parse_and_validate_hex_line(hex_line_buf).valid

C29_AcceptedLineStep ==
  /\ [][(UpdateStep /\ LineReady)
          => branch' \in {"line_ok", "line_process_fail"}]_vars
  /\ [][branch' = "line_ok"
          => /\ LineReady
             /\ computed_file_checksum' =
                  crc_value(crc32_upd_seed(U32Not(computed_file_checksum),
                                           LineBytes(hex_line_buf)))
             /\ CRC32' = crc32_upd_seed(CRC32, LineBytes(hex_line_buf))
             /\ hex_line_num' = hex_line_num + 1
             /\ hex_line_buf' = PadLine
             /\ hex_line_segment_count' = 0 - 1
             /\ hex_line_segments_received' = <<>>
             /\ response' = SEND_LINE]_vars

\* the first line of a two-line file was accepted and line 1 is requested
C29_Witness ==
  /\ branch = "line_ok"
  /\ response = SEND_LINE
  /\ accepted_lines = <<LineData>>
  /\ hex_line_num = 1
  /\ ~eof_received
  /\ hex_line_buf = PadLine
  /\ hex_line_segment_count = 0 - 1

\* ------------------------------------------------------------------------
\* C30: in every reachable state with a transfer in progress, the received
\* flags are set only at indices below the segment count of the line; for
\* every set flag i the bytes hex_line_buf[5i..5i+4] are those of the most
\* recently accepted segment i of the current line, and for every index
\* whose flag is not set those bytes are all PAD.  "Most recently accepted"
\* is stated inductively: the bytes of an unmarked index are PAD, and
\* accepting a segment i stores its five bytes at 5i..5i+4 of the buffer,
\* marks i, and changes no other byte and no other flag.
\* ------------------------------------------------------------------------
SegmentMarked(s, i) ==
  /\ i < Len(s.hex_line_segments_received)
  /\ s.hex_line_segments_received[i + 1]

UnmarkedArePad(s) ==
  \A i \in 0..(MAX_CHUNKS_PER_HEX_LINE - 1) :
     ~SegmentMarked(s, i) =>
        \A o \in SegmentOffsets(i) : s.hex_line_buf[o + 1] = PAD

MarkedLieInBuffer(s) ==
  \A i \in 0..(Len(s.hex_line_segments_received) - 1) :
     SegmentMarked(s, i) => SegmentOffsets(i) \subseteq 0..(MAX_HEX_LINE_SIZE - 1)

AcceptedSegmentStored(s) ==
  \A m \in SegmentMsgs :
     LET r == process_transfer_segment_msg(s, m)
         first == m.segment_num * MAX_HEX_CHUNK_SIZE
         before == IF s.hex_line_segment_count = 0 - 1
                   THEN [k \in 1..m.total_segments |-> FALSE]
                   ELSE s.hex_line_segments_received
     IN  r[1] = "seg_ok" =>
           /\ r[2].hex_line_segment_count = m.total_segments
           /\ m.segment_num < m.total_segments
           /\ Len(r[2].hex_line_segments_received) = m.total_segments
           /\ \A k \in 1..m.total_segments :
                 r[2].hex_line_segments_received[k]
                   = (k = m.segment_num + 1 \/ before[k])
           /\ \A o \in SegmentOffsets(m.segment_num) \cap 0..(MAX_HEX_LINE_SIZE - 1) :
                 r[2].hex_line_buf[o + 1] = m.hex_data[o - first + 1]
           /\ \A o \in (0..(MAX_HEX_LINE_SIZE - 1)) \ SegmentOffsets(m.segment_num) :
                 r[2].hex_line_buf[o + 1] = s.hex_line_buf[o + 1]

C30_MaskMatchesLineBuffer ==
  transfer_in_progress =>
    /\ Len(hex_line_segments_received)
         = (IF hex_line_segment_count < 0 THEN 0 ELSE hex_line_segment_count)
    /\ UnmarkedArePad(Cur)
    /\ MarkedLieInBuffer(Cur)
    /\ AcceptedSegmentStored(Cur)


\* ------------------------------------------------------------------------
\* C31: a segment frame rejected by process_transfer_segment_msg (wrong line
\* number, total differing from the stored count, or segment index out of
\* range) is dropped without effect: hex_line_segment_count, the received
\* flags and hex_line_buf are exactly as before the frame, and
\* last_successful_can_msg_ts is not refreshed.
\* ------------------------------------------------------------------------
SegmentRejected == frame_result' \in {"line_mismatch", "total_mismatch", "bad_index"}

C31_RejectedSegmentDropped ==
  [][SegmentRejected
        => UNCHANGED << hex_line_segment_count, hex_line_segments_received,
                        hex_line_buf, elapsed >>]_vars


\* ------------------------------------------------------------------------
\* C32: the update() call that reports a pending InitMsg clears
\* new_transfer_init_msg_received: the same InitMsg is reported by at most
\* one update(), and later update() calls of a transfer in progress go on to
\* process completed lines.
\* ------------------------------------------------------------------------
C32_InitReportedOnce ==
  /\ [][(UpdateStep /\ branch' = "init_pending")
          => ~new_transfer_init_msg_received']_vars
  /\ [][(UpdateStep /\ branch = "init_pending") => branch' # "init_pending"]_vars


\* ------------------------------------------------------------------------
\* C33: handle_can_msg refreshes last_successful_can_msg_ts for every InitMsg
\* it handles, whether the checksum of the message matches or not.
\* ------------------------------------------------------------------------
InitHandled == frame_result' \in {"init_ok", "init_bad_checksum"}

C33_InitRefreshesTimestamp == [][InitHandled => elapsed' = 0]_vars


\* ------------------------------------------------------------------------
\* C34: a segment frame handled while transfer_in_progress is false is
\* dropped: nothing is written to the line buffer or the received flags,
\* transfer_in_progress, file_transfer_complete and all per-file state keep
\* their values, and no response results from it.
\* ------------------------------------------------------------------------
SegmentHandled == frame_result' \notin {NoFrame, "init_ok", "init_bad_checksum", "init_bad_type"}

C34_SegmentWhileIdleDropped ==
  /\ [][(SegmentHandled /\ ~transfer_in_progress)
          => /\ frame_result' = "seg_idle"
             /\ UNCHANGED << TransferState, new_transfer_init_msg_received,
                             transfer_init_msg_error, CRC32 >>
             /\ overrun' = {}
             /\ response' = NoCall
             /\ staging_write' = NoWrite]_vars
  /\ [][frame_result' = "seg_idle" => ~transfer_in_progress]_vars
  /\ [][(UpdateStep /\ frame_result = "seg_idle") => response' = NoCall]_vars

\* a segment frame arrived after the transfer had completed
C34_Witness ==
  /\ frame_result = "seg_idle"
  /\ file_transfer_complete
  /\ eof_received
  /\ ~transfer_in_progress


\* ------------------------------------------------------------------------
\* C35: in every reachable state that is idle (transfer_in_progress and
\* file_transfer_complete both false) - after init(), after an inactivity
\* abort, after a file-checksum abort, and after any frames handled while
\* idle - every session variable holds its reset value: hex_line_num = 0,
\* computed_file_checksum = CRC of the empty input, eof_received = false,
\* base_address = 0, min_address = 0xFFFFFFFF, max_address = 0,
\* total_lines = 0, no pending init and no init error, line buffer all PAD
\* with the segment count unknown.
\* ------------------------------------------------------------------------
Idle == ~transfer_in_progress /\ ~file_transfer_complete

SessionVariablesReset ==
  /\ hex_line_num = 0
  /\ computed_file_checksum = crc_value(crc32_seed(<<>>))
  /\ ~eof_received
  /\ base_address = U32Zero
  /\ min_address = U32Max
  /\ max_address = U32Zero
  /\ total_lines = 0
  /\ hex_line_buf = PadLine
  /\ hex_line_segment_count = 0 - 1
  /\ hex_line_segments_received = <<>>

C35_IdleStateIsReset ==
  Idle => /\ SessionVariablesReset
          /\ ~new_transfer_init_msg_received
          /\ ~transfer_init_msg_error


\* ------------------------------------------------------------------------
\* Sessions opened with the extreme values of the 15-bit line_count field.
\* ------------------------------------------------------------------------
MAX_LINE_COUNT == 32767                                     \* & 0x7FFF

\* <<line_count, file_checksum>>: no line, one line, the largest count
LineCountHeaders ==
  { <<0, FileCrc(<<>>)>>, <<1, FileCrc(<<LineEof>>)>>,
    <<MAX_LINE_COUNT, FileCrc(<<LineEof>>)>> }

LineCountFrames ==
  {PackInitFrame(h[1], h[2], k) : h \in LineCountHeaders, k \in InitChecksums}

NextLineCount ==
  \/ \E buf \in LineCountFrames, calc \in OverreadCrc :
       handle_can_msg(buf, calc) /\ UNCHANGED host
  \/ \E buf \in SegmentFrames : handle_can_msg(buf, U32Zero) /\ UNCHANGED host
  \/ update /\ UNCHANGED host
  \/ \E d \in TickSteps : Tick(d) /\ UNCHANGED host

SpecLineCount == Init /\ [][NextLineCount]_vars

\* ------------------------------------------------------------------------
\* C36: whenever a transfer is in progress, total_lines lies in 1..32767: an
\* InitMsg whose line_count field is 0 does not start a session.
\* ------------------------------------------------------------------------
C36_LineCountAtLeastOne ==
  transfer_in_progress => (total_lines >= 1 /\ total_lines <= MAX_LINE_COUNT)


\* ------------------------------------------------------------------------
\* C37: in every reachable state of a session hex_line_num <= total_lines,
\* and once the EOF record has been accepted no further HEX line is accepted:
\* hex_line_num and computed_file_checksum do not change again until the
\* session ends.
\* ------------------------------------------------------------------------
InSession == transfer_in_progress \/ file_transfer_complete

C37_NoLineAfterEof ==
  /\ [](InSession => hex_line_num <= total_lines)
  /\ [][(/\ eof_received
         /\ transfer_in_progress
         /\ transfer_in_progress'
         /\ frame_result' # "init_ok")
          => UNCHANGED <<hex_line_num, computed_file_checksum>>]_vars
  /\ [][(eof_received /\ InSession) => branch' # "line_ok"]_vars


\* ------------------------------------------------------------------------
\* C38: a data record rejected by the address-range check leaves min_address
\* and max_address unchanged, so a data record that lies inside the staging
\* range and is processed later in the same session is still accepted (short
\* of an error of the flash driver).
\* ------------------------------------------------------------------------
InRangeRecords ==
  {parse_and_validate_hex_line(Padded(l)) : l \in {LineData, LineDataAtLimit}}

RejectedByRange ==
  /\ branch' = "line_process_fail"
  /\ CurrentRecord.record_type = 0
  /\ staging_write'[1] = "none"

C38_RejectedRecordKeepsBounds ==
  /\ [][RejectedByRange => UNCHANGED <<min_address, max_address>>]_vars
  /\ [](transfer_in_progress =>
          \A hl \in InRangeRecords :
             ~EndPastLimit(hl) =>
                \A o \in process_hex_data_record(Cur, hl, flash_buffer_size, staging) :
                   o[1] \/ o[3][1] = "flash_error")


\* ------------------------------------------------------------------------
\* C39: the 32-bit sum base_address + address + byte_count of an accepted
\* data record never wraps modulo 2^32: with base_address set by an extended
\* linear address record (up to 0xFFFF0000), a data record whose true end
\* address exceeds 0xFFFFFFFF is rejected rather than accepted with a wrapped
\* end address and written outside the staging region.
\* ------------------------------------------------------------------------
C39_EndAddressDoesNotWrap ==
  [][(UpdateStep /\ CurrentRecord.valid /\ CurrentRecord.record_type = 0
        /\ EndWraps(CurrentRecord))
        => /\ branch' # "line_ok"
           /\ staging_write' = NoWrite]_vars


\* ------------------------------------------------------------------------
\* C40: file_transfer_complete and transfer_in_progress are never both true,
\* and once file_transfer_complete is true it stays true, with no response
\* emitted and no line accepted, until a valid InitMsg is handled or init()
\* is called.
\* ------------------------------------------------------------------------
\* a step of init(): no frame, no update(), and millis() has not advanced
InitCalled == frame_result' = NoFrame /\ branch' = "none" /\ elapsed' = elapsed

C40_CompleteIsStable ==
  /\ [](~(file_transfer_complete /\ transfer_in_progress))
  /\ [][(file_transfer_complete /\ frame_result' # "init_ok" /\ ~InitCalled)
          => /\ file_transfer_complete'
             /\ response' = NoCall
             /\ branch' \in {"none", "idle"}
             /\ staging_write' = NoWrite
             /\ UNCHANGED << hex_line_num, computed_file_checksum,
                             accepted_lines, eof_received, total_lines >>]_vars
  /\ [][(file_transfer_complete /\ ~file_transfer_complete')
          => IsResetState']_vars

\* an InitMsg with a bad checksum was handled after the transfer had
\* completed, and the transfer is still complete
C40_Witness ==
  /\ file_transfer_complete
  /\ frame_result = "init_bad_checksum"
  /\ transfer_init_msg_error
  /\ eof_received

====
